---- MODULE Spec2Model ----
(***************************************************************************)
(* EHR AI chat assistant (AshokSoftDev/ehr_ai): the chat orchestration     *)
(* service, the request-scoped token context, the LangGraph agent loop,    *)
(* the tool catalog's result envelopes and the read-only query guard.      *)
(*                                                                         *)
(* Text is modelled as a sequence of one-character strings, so that the    *)
(* code's includes / startsWith / toUpperCase / trim are computed and not  *)
(* assumed.                                                                *)
(***************************************************************************)
EXTENDS Integers, Sequences, FiniteSets, TLC

\* ------------------------------------------------------------------ text

LowerChars ==
    << "a","b","c","d","e","f","g","h","i","j","k","l","m",
       "n","o","p","q","r","s","t","u","v","w","x","y","z" >>

UpperChars ==
    << "A","B","C","D","E","F","G","H","I","J","K","L","M",
       "N","O","P","Q","R","S","T","U","V","W","X","Y","Z" >>

DigitChars ==
    << "0","1","2","3","4","5","6","7","8","9" >>

\* String.prototype.toUpperCase, one character
UpperChar(c) ==
    IF \E i \in 1..26 : LowerChars[i] = c
    THEN UpperChars[CHOOSE i \in 1..26 : LowerChars[i] = c]
    ELSE c

\* String.prototype.toUpperCase
ToUpperCase(s) ==
    [i \in 1..Len(s) |-> UpperChar(s[i])]

IsSpace(c) ==
    c \in {" ", "\n", "\t", "\r"}

\* String.prototype.trim
Trim(s) ==
    LET keep == {i \in 1..Len(s) : ~IsSpace(s[i])}
    IN  IF keep = {} THEN <<>>
        ELSE SubSeq(s, CHOOSE i \in keep : \A j \in keep : i <= j,
                       CHOOSE i \in keep : \A j \in keep : i >= j)

MatchesAt(s, sub, i) ==
    /\ i + Len(sub) - 1 <= Len(s)
    /\ \A k \in 1..Len(sub) : s[i + k - 1] = sub[k]

\* String.prototype.includes
Includes(s, sub) ==
    \E i \in 1..(Len(s) - Len(sub) + 1) : MatchesAt(s, sub, i)

\* String.prototype.startsWith
StartsWith(s, sub) ==
    MatchesAt(s, sub, 1)

\* Number -> decimal text, as a template literal renders it
RECURSIVE Digits(_)
Digits(n) ==
    IF n < 10 THEN << DigitChars[n + 1] >>
    ELSE Digits(n \div 10) \o << DigitChars[(n % 10) + 1] >>

S_RateLimitExceeded ==
    << "R","a","t","e"," ","l","i","m","i","t"," ","e","x","c","e","e",
       "d","e","d","."," ","P","l","e","a","s","e"," ","w","a","i","t",
       " ","a"," ","m","o","m","e","n","t"," ","b","e","f","o","r","e",
       " ","s","e","n","d","i","n","g"," ","m","o","r","e"," ","m","e",
       "s","s","a","g","e","s","." >>

S_NoPermission ==
    << "Y","o","u"," ","d","o"," ","n","o","t"," ","h","a","v","e"," ",
       "p","e","r","m","i","s","s","i","o","n"," ","t","o"," ","u","s",
       "e"," ","t","h","e"," ","A","I"," ","C","h","a","t"," ","f","e",
       "a","t","u","r","e" >>

S_AnErrorOccurred ==
    << "A","n"," ","e","r","r","o","r"," ","o","c","c","u","r","r","e",
       "d" >>

S_Unexpected ==
    << "I"," ","e","n","c","o","u","n","t","e","r","e","d"," ","a","n",
       " ","u","n","e","x","p","e","c","t","e","d"," ","e","r","r","o",
       "r","."," ","P","l","e","a","s","e"," ","t","r","y"," ","a","g",
       "a","i","n","." >>

S_HighDemand ==
    << "T","h","e"," ","A","I"," ","s","e","r","v","i","c","e"," ","i",
       "s"," ","e","x","p","e","r","i","e","n","c","i","n","g"," ","h",
       "i","g","h"," ","d","e","m","a","n","d","."," ","P","l","e","a",
       "s","e"," ","w","a","i","t"," ","a"," ","m","o","m","e","n","t",
       " ","a","n","d"," ","t","r","y"," ","a","g","a","i","n","." >>

S_TookTooLong ==
    << "T","h","e"," ","r","e","q","u","e","s","t"," ","t","o","o","k",
       " ","t","o","o"," ","l","o","n","g","."," ","P","l","e","a","s",
       "e"," ","t","r","y"," ","a"," ","s","i","m","p","l","e","r"," ",
       "q","u","e","s","t","i","o","n"," ","o","r"," ","t","r","y"," ",
       "a","g","a","i","n","." >>

S_rate_limit ==
    << "r","a","t","e"," ","l","i","m","i","t" >>

S_429 ==
    << "4","2","9" >>

S_timeout ==
    << "t","i","m","e","o","u","t" >>

S_ETIMEDOUT ==
    << "E","T","I","M","E","D","O","U","T" >>

S_permission ==
    << "p","e","r","m","i","s","s","i","o","n" >>

S_Apology ==
    << "I"," ","a","p","o","l","o","g","i","z","e",","," ","b","u","t",
       " ","I"," ","w","a","s"," ","u","n","a","b","l","e"," ","t","o",
       " ","g","e","n","e","r","a","t","e"," ","a"," ","r","e","s","p",
       "o","n","s","e","."," ","P","l","e","a","s","e"," ","t","r","y",
       " ","a","g","a","i","n","." >>

S_AuthRequired ==
    << "A","u","t","h","e","n","t","i","c","a","t","i","o","n"," ","r",
       "e","q","u","i","r","e","d" >>

S_RecursionHead ==
    << "R","e","c","u","r","s","i","o","n"," ","l","i","m","i","t"," ",
       "o","f"," " >>

S_RecursionTail ==
    << " ","r","e","a","c","h","e","d"," ","w","i","t","h","o","u","t",
       " ","h","i","t","t","i","n","g"," ","a"," ","s","t","o","p"," ",
       "c","o","n","d","i","t","i","o","n","."," ","Y","o","u"," ","c",
       "a","n"," ","i","n","c","r","e","a","s","e"," ","t","h","e"," ",
       "l","i","m","i","t"," ","b","y"," ","s","e","t","t","i","n","g",
       " ","t","h","e"," ","\"","r","e","c","u","r","s","i","o","n","L",
       "i","m","i","t","\""," ","c","o","n","f","i","g"," ","k","e","y",
       "." >>

S_Hello ==
    << "H","e","l","l","o" >>

S_hi ==
    << "h","i" >>

S_yo ==
    << "y","o" >>

S_Err429 ==
    << "4","2","9"," ","T","o","o"," ","M","a","n","y"," ","R","e","q",
       "u","e","s","t","s" >>

S_ErrTimeout ==
    << "R","e","q","u","e","s","t"," ","t","i","m","e","o","u","t" >>

S_ErrBoom ==
    << "u","p","s","t","r","e","a","m"," ","f","a","i","l","e","d" >>

S_DbDown ==
    << "d","b"," ","d","o","w","n" >>

S_ContextHead ==
    << "[","C","o","n","t","e","x","t",":"," ","U","s","e","r"," ","\"" >>

S_ContextDate ==
    << ","," ","C","u","r","r","e","n","t"," ","d","a","t","e",":"," " >>

S_ContextTime ==
    << ","," ","T","i","m","e",":"," " >>

S_ContextToday ==
    << ","," ","T","o","d","a","y",":"," " >>

S_ContextTail ==
    << "]","\n","\n","U","s","e","r"," ","m","e","s","s","a","g","e",":",
       " " >>

S_root ==
    << "r","o","o","t" >>

S_staff ==
    << "s","t","a","f","f" >>

S_EmailA ==
    << "a","@","x" >>

S_EmailB ==
    << "b","@","x" >>

S_SystemPrompt ==
    << "Y","o","u"," ","a","r","e"," ","a","n"," ","E","H","R"," ","A",
       "I"," ","a","s","s","i","s","t","a","n","t","." >>

S_ErrorBrace ==
    << "{","\"","e","r","r","o","r","\"",":","\"" >>

S_CloseBrace ==
    << "\"","}" >>

S_SuccessBrace ==
    << "{","\"","s","u","c","c","e","s","s","\"",":","t","r","u","e","}" >>

S_BareBrace ==
    << "{","}" >>

S_ApiDown ==
    << "N","e","t","w","o","r","k"," ","E","r","r","o","r" >>

S_NotFound ==
    << "P","a","t","i","e","n","t"," ","n","o","t"," ","f","o","u","n",
       "d" >>

S_BadRequest ==
    << "B","a","d"," ","r","e","q","u","e","s","t" >>

S_UnknownError ==
    << "U","n","k","n","o","w","n"," ","e","r","r","o","r"," ","o","c",
       "c","u","r","r","e","d" >>

S_NullRead ==
    << "C","a","n","n","o","t"," ","r","e","a","d"," ","p","r","o","p",
       "e","r","t","i","e","s"," ","o","f"," ","u","n","d","e","f","i",
       "n","e","d" >>

S_SELECT ==
    << "S","E","L","E","C","T" >>

S_LIMIT ==
    << "L","I","M","I","T" >>

S_LimitClause ==
    << " ","L","I","M","I","T"," " >>

S_QueryRequired ==
    << "Q","u","e","r","y"," ","i","s"," ","r","e","q","u","i","r","e",
       "d","."," ","P","l","e","a","s","e"," ","p","r","o","v","i","d",
       "e"," ","a"," ","S","Q","L"," ","S","E","L","E","C","T"," ","q",
       "u","e","r","y","." >>

S_ForbiddenHead ==
    << "Q","u","e","r","y"," ","c","o","n","t","a","i","n","s"," ","f",
       "o","r","b","i","d","d","e","n"," ","k","e","y","w","o","r","d",
       ":"," " >>

S_ForbiddenTail ==
    << "."," ","O","n","l","y"," ","S","E","L","E","C","T"," ","q","u",
       "e","r","i","e","s"," ","a","r","e"," ","a","l","l","o","w","e",
       "d","." >>

S_OnlySelect ==
    << "O","n","l","y"," ","S","E","L","E","C","T"," ","q","u","e","r",
       "i","e","s"," ","a","r","e"," ","a","l","l","o","w","e","d",".",
       " ","Q","u","e","r","y"," ","m","u","s","t"," ","s","t","a","r",
       "t"," ","w","i","t","h"," ","S","E","L","E","C","T","." >>

S_TrimNotFunction ==
    << "s","q","l","Q","u","e","r","y",".","t","r","i","m"," ","i","s",
       " ","n","o","t"," ","a"," ","f","u","n","c","t","i","o","n" >>

S_PgError ==
    << "r","e","l","a","t","i","o","n"," ","d","o","e","s"," ","n","o",
       "t"," ","e","x","i","s","t" >>

S_JsonQueryKey ==
    << "\"","q","u","e","r","y","\"",":" >>

S_JsonLimitKey ==
    << "\"","l","i","m","i","t","\"",":" >>

S_JsonNull ==
    << "n","u","l","l" >>

F_Select ==
    << "S","E","L","E","C","T"," ","1" >>

F_select ==
    << " ","s","e","l","e","c","t"," ","x" >>

F_From ==
    << " ","F","R","O","M"," ","t" >>

F_Drop ==
    << ";"," ","D","r","o","p"," ","T","A","B","L","E"," ","t" >>

F_update ==
    << " ","u","p","d","a","t","e"," ","t" >>

F_createdAt ==
    << " ","\"","c","r","e","a","t","e","d","A","t","\"" >>

F_Limit ==
    << " ","l","i","m","i","t"," ","5" >>

F_rateLimit ==
    << " ","\"","r","a","t","e","L","i","m","i","t","\"" >>

F_Space ==
    << " " >>

F_LimitInjection ==
    << "1",";"," ","D","R","O","P"," ","T","A","B","L","E"," ","t" >>

S_IsRequired ==
    << " ","i","s"," ","r","e","q","u","i","r","e","d" >>

S_SyntaxError ==
    << "U","n","e","x","p","e","c","t","e","d"," ","t","o","k","e","n",
       " ","i","n"," ","J","S","O","N" >>

S_DbQueryFailed ==
    << "D","a","t","a","b","a","s","e"," ","q","u","e","r","y"," ","f",
       "a","i","l","e","d" >>

S_SchemaQueryFailed ==
    << "S","c","h","e","m","a"," ","q","u","e","r","y"," ","f","a","i",
       "l","e","d" >>

S_BlockHead ==
    << "[","{","\"","t","y","p","e","\"",":","\"","t","e","x","t","\"",",",
       "\"","t","e","x","t","\"",":","\"" >>

S_BlockTail ==
    << "\"","}","]" >>

S_ContextOpen ==
    << "\""," ","(" >>

S_ContextClose ==
    << ")" >>

S_PrismaPermission ==
    << "p","e","r","m","i","s","s","i","o","n"," ","d","e","n","i","e",
       "d"," ","f","o","r"," ","t","a","b","l","e"," ","M","o","d","u",
       "l","e" >>

S_ModelPermission ==
    << "4","0","3"," ","Y","o","u"," ","d","o"," ","n","o","t"," ","h",
       "a","v","e"," ","p","e","r","m","i","s","s","i","o","n"," ","t",
       "o"," ","a","c","c","e","s","s"," ","m","o","d","e","l"," ","g",
       "p","t","-","4","o","-","m","i","n","i" >>

S__id ==
    << "_","i","d" >>

S_mrn ==
    << "m","r","n" >>

S_SchemaNotAvailable ==
    << "S","c","h","e","m","a"," ","n","o","t"," ","a","v","a","i","l",
       "a","b","l","e","." >>

S_SchemaTitle ==
    << "#","#"," ","D","A","T","A","B","A","S","E"," ","S","C","H","E",
       "M","A"," ","(","o","n","l","y"," ","s","h","o","w","i","n","g",
       " ","c","o","l","u","m","n","s"," ","s","a","f","e"," ","t","o",
       " ","d","i","s","p","l","a","y",")",":" >>

S_SchemaImportant ==
    << "*","*","I","M","P","O","R","T","A","N","T",":"," ","O","n","l",
       "y"," ","u","s","e"," ","t","h","e","s","e"," ","c","o","l","u",
       "m","n","s"," ","i","n"," ","S","E","L","E","C","T","."," ","N",
       "e","v","e","r"," ","s","e","l","e","c","t"," ","o","r"," ","d",
       "i","s","p","l","a","y"," ","I","D"," ","c","o","l","u","m","n",
       "s","!","*","*" >>

S_TableHead ==
    << "#","#","#"," ","\"" >>

S_FilterHead ==
    << " ","|"," ","F","i","l","t","e","r",":"," ","\"" >>

S_FilterTail ==
    << "\""," ","="," ","1" >>

S_ColumnsHead ==
    << "C","o","l","u","m","n","s",":"," " >>

S_BasePrompt ==
    << "Y","o","u"," ","a","r","e"," ","a","n"," ","i","n","t","e","l",
       "l","i","g","e","n","t"," ","E","H","R","/","E","M","R"," ","(",
       "E","l","e","c","t","r","o","n","i","c"," ","H","e","a","l","t",
       "h"," ","R","e","c","o","r","d","s",")"," ","A","I"," ","a","s",
       "s","i","s","t","a","n","t",".","\n" >>

N_patient_id ==
    << "p","a","t","i","e","n","t","_","i","d" >>

N_createdAt ==
    << "c","r","e","a","t","e","d","A","t" >>

N_foo_id ==
    << "f","o","o","_","i","d" >>

N_Patient_ID ==
    << "P","a","t","i","e","n","t","_","I","D" >>

N_CREATEDAT ==
    << "C","R","E","A","T","E","D","A","T" >>

N_firstName ==
    << "f","i","r","s","t","N","a","m","e" >>

N_status ==
    << "s","t","a","t","u","s" >>

N_idx ==
    << "i","d","x" >>

N_token ==
    << "t","o","k","e","n" >>

N_Patient ==
    << "P","a","t","i","e","n","t" >>

N_Audit ==
    << "A","u","d","i","t" >>

\* ------------------------------------------------------- tool result envelope

\* The object a tool hands to JSON.stringify, as far as its top-level "success"
\* and "error" members go: success is "true", "false" or "none" (no such member);
\* defined is FALSE when the value is undefined (JSON.stringify returns no string).
ErrorEnvelope(msg) ==
    [defined |-> TRUE, success |-> "none", hasError |-> TRUE, error |-> msg,
     bare |-> FALSE]

SuccessEnvelope ==
    [defined |-> TRUE, success |-> "true", hasError |-> FALSE, error |-> <<>>,
     bare |-> FALSE]

\* { success: false, error: message, hint: ... }
FailureEnvelope(msg) ==
    [defined |-> TRUE, success |-> "false", hasError |-> TRUE, error |-> msg,
     bare |-> FALSE]

\* ------------------------------------------------- query_database (pg tool)

\* database.tool.ts: dangerousKeywords, in the order the loop tests them
dangerousKeywords ==
    << << "I","N","S","E","R","T" >>,
       << "U","P","D","A","T","E" >>,
       << "D","E","L","E","T","E" >>,
       << "D","R","O","P" >>,
       << "A","L","T","E","R" >>,
       << "T","R","U","N","C","A","T","E" >>,
       << "C","R","E","A","T","E" >>,
       << "G","R","A","N","T" >>,
       << "R","E","V","O","K","E" >> >>

\* let limit = 50
DEFAULT_LIMIT == 50

\* A parsed JSON value, as far as query_database looks at it: its type, and for
\* an object its "query" and "limit" members (each a string or a number).
JsonObject(hasQuery, queryType, query, queryNum, hasLimit, limitType, limitNum, limitStr) ==
    [type |-> "object", num |-> 0,
     hasQuery |-> hasQuery, queryType |-> queryType, query |-> query,
     queryNum |-> queryNum,
     hasLimit |-> hasLimit, limitType |-> limitType, limitNum |-> limitNum,
     limitStr |-> limitStr]

JsonScalar(type, n) ==
    [type |-> type, num |-> n,
     hasQuery |-> FALSE, queryType |-> "string", query |-> <<>>, queryNum |-> 0,
     hasLimit |-> FALSE, limitType |-> "number", limitNum |-> 0, limitStr |-> <<>>]

\* JSON string literal: quotes and backslashes escaped
RECURSIVE JsonEscape(_)
JsonEscape(s) ==
    IF s = <<>> THEN <<>>
    ELSE (IF Head(s) \in {"\"", "\\"} THEN << "\\", Head(s) >> ELSE << Head(s) >>)
         \o JsonEscape(Tail(s))

JsonQuote(s) ==
    << "\"" >> \o JsonEscape(s) \o << "\"" >>

\* The members of a JSON object, comma-separated, in braces
JsonBraces(members) ==
    << "{" >>
    \o (IF Len(members) = 0 THEN <<>>
        ELSE IF Len(members) = 1 THEN members[1]
        ELSE members[1] \o << "," >> \o members[2])
    \o << "}" >>

JsonQueryMember(v) ==
    IF v.hasQuery
    THEN << S_JsonQueryKey \o (IF v.queryType = "string" THEN JsonQuote(v.query)
                               ELSE Digits(v.queryNum)) >>
    ELSE <<>>

JsonLimitMember(v) ==
    IF v.hasLimit
    THEN << S_JsonLimitKey \o (IF v.limitType = "number" THEN Digits(v.limitNum)
                               ELSE JsonQuote(v.limitStr)) >>
    ELSE <<>>

\* The text of a JSON value (JSON.stringify's rendering of it)
JsonText(v) ==
    CASE v.type = "null" -> S_JsonNull
      [] v.type = "number" -> Digits(v.num)
      [] OTHER -> JsonBraces(JsonQueryMember(v) \o JsonLimitMember(v))

\* Fragments the inputs are built from: both cases, keywords inside identifiers,
\* leading and trailing blanks.
SqlFragments ==
    { F_Select, F_select, F_From, F_Drop, F_update, F_createdAt, F_Limit,
      F_rateLimit, F_Space }

RECURSIVE Texts(_)
Texts(n) ==
    IF n = 0 THEN { <<>> }
    ELSE Texts(n - 1) \cup { t \o f : t \in Texts(n - 1), f \in SqlFragments }

\* Longest plain input and longest "query" member, in fragments
MaxFrags == 3
MaxJsonFrags == 2

JsonUniverse ==
    { JsonScalar("null", 0), JsonScalar("number", 7) }
    \cup { JsonObject(FALSE, "string", <<>>, 0, l[1], l[2], l[3], l[4]) :
             l \in { <<FALSE, "number", 0, <<>> >>, <<TRUE, "number", 10, <<>> >> } }
    \cup { JsonObject(TRUE, "number", <<>>, 5, FALSE, "number", 0, <<>>) }
    \cup { JsonObject(TRUE, "string", q, 0, l[1], l[2], l[3], l[4]) :
             q \in Texts(MaxJsonFrags),
             l \in { <<FALSE, "number", 0, <<>> >>, <<TRUE, "number", 10, <<>> >>,
                     <<TRUE, "number", 0, <<>> >>,
                     <<TRUE, "string", 0, F_LimitInjection>> } }

JsonTexts ==
    [v \in JsonUniverse |-> JsonText(v)]

\* JSON.parse, on the texts a caller can send here: the value whose text it is,
\* or a SyntaxError (ok = FALSE)
JSONParsed(hit) ==
    IF hit = {} THEN [ok |-> FALSE, value |-> JsonScalar("null", 0)]
    ELSE [ok |-> TRUE, value |-> CHOOSE v \in hit : TRUE]

JSONParse(raw) ==
    IF raw = <<>> \/ Head(raw) \notin {"{", "n", "7"}
    THEN JSONParsed({})
    ELSE JSONParsed({ v \in DOMAIN JsonTexts : JsonTexts[v] = raw })

\* What the function does to the database: nothing, or one pgQuery(statement)
NotExecuted(env) ==
    [result |-> env, executed |-> FALSE, statement |-> <<>>]

\* pgQuery(safeQuery) resolves (success:true) or rejects (outer catch:
\* success:false, error, hint)
Executed(safeQuery, pgFails) ==
    [result |-> IF pgFails THEN FailureEnvelope(S_PgError) ELSE SuccessEnvelope,
     executed |-> TRUE, statement |-> safeQuery]

\* params.query and params.limit, when truthy
TruthyQuery(v) ==
    /\ v.type = "object" /\ v.hasQuery
    /\ IF v.queryType = "string" THEN v.query # <<>> ELSE v.queryNum # 0

TruthyLimit(v) ==
    /\ v.type = "object" /\ v.hasLimit
    /\ IF v.limitType = "number" THEN v.limitNum # 0 ELSE v.limitStr # <<>>

\* The inner try: params = JSON.parse(input); sqlQuery = params.query || input;
\* limit = params.limit || 50; on a throw (SyntaxError, or reading a member of
\* null) sqlQuery = input and limit stays 50
queryParams(input, parsed) ==
    IF ~parsed.ok \/ parsed.value.type = "null"
    THEN [isString |-> TRUE, sqlQuery |-> input, limit |-> Digits(DEFAULT_LIMIT)]
    ELSE [isString |-> ~TruthyQuery(parsed.value)
                       \/ parsed.value.queryType = "string",
          sqlQuery |-> IF TruthyQuery(parsed.value)
                          /\ parsed.value.queryType = "string"
                       THEN parsed.value.query ELSE input,
          limit    |-> IF ~TruthyLimit(parsed.value) THEN Digits(DEFAULT_LIMIT)
                       ELSE IF parsed.value.limitType = "number"
                       THEN Digits(parsed.value.limitNum)
                       ELSE parsed.value.limitStr]

\* The safety checks on queryUpper, the LIMIT clause and the call of pgQuery
querySafety(sqlQuery, queryUpper, limit, pgFails) ==
    LET hits == { i \in 1..Len(dangerousKeywords) :
                    Includes(queryUpper, dangerousKeywords[i]) }
    IN  IF hits # {}
        THEN NotExecuted(ErrorEnvelope(
                 S_ForbiddenHead
                 \o dangerousKeywords[CHOOSE i \in hits : \A j \in hits : i <= j]
                 \o S_ForbiddenTail))
        ELSE IF ~StartsWith(queryUpper, S_SELECT)
        THEN NotExecuted(ErrorEnvelope(S_OnlySelect))
        ELSE Executed(IF Includes(queryUpper, S_LIMIT) THEN sqlQuery
                      ELSE sqlQuery \o S_LimitClause \o limit, pgFails)

\* if (!sqlQuery || !sqlQuery.trim()): a number has no trim (TypeError, caught
\* by the outer catch)
queryBody(params, pgFails) ==
    IF ~params.isString THEN NotExecuted(FailureEnvelope(S_TrimNotFunction))
    ELSE IF params.sqlQuery = <<>> \/ Trim(params.sqlQuery) = <<>>
    THEN NotExecuted(ErrorEnvelope(S_QueryRequired))
    ELSE querySafety(params.sqlQuery, Trim(ToUpperCase(params.sqlQuery)),
                     params.limit, pgFails)

\* queryDatabaseTool.func: the envelope returned, whether pgQuery was called and
\* with which statement. pgFails: pgQuery rejects.
queryDatabaseFunc(input, pgFails) ==
    queryBody(queryParams(input, JSONParse(input)), pgFails)
\* ------------------------------------------------------------ token context

\* JS null / undefined
Null == "null"

\* Fault: one module-level token, so that a binding shows in every context
tokenStorageRunShared(store, ctx, token) ==
    [c \in DOMAIN store |-> token]

\* token-context.ts: tokenStorage.run(token, fn) binds the store for the async
\* context ctx that runs fn (and the work it starts), and for no other context.
tokenStorageRun(store, ctx, token) ==
    [store EXCEPT ![ctx] = token]

\* Fault: the binding outlives fn
tokenStorageLinger(store, ctx) ==
    store

\* patient.tool.ts: setAuthToken(token) assigns the module-level authToken
setAuthToken(token) ==
    token

\* fn has settled: nothing runs in its context any more
tokenStorageExit(store, ctx) ==
    [store EXCEPT ![ctx] = Null]

\* Fault: the store is never read
getCurrentTokenAbsent(store, ctx) ==
    Null

\* getCurrentToken: tokenStorage.getStore() || null, called in context ctx
getCurrentToken(store, ctx) ==
    IF store[ctx] = Null \/ store[ctx] = "" THEN Null ELSE store[ctx]

\* ------------------------------------------------------------- tool catalog

\* response.data of the EHR API, as far as the tools look at it: whether it is
\* defined, its top-level "success", "message" and "error" members, and whether
\* it has a (truthy) nested "data" member.
Body(defined, success, message, error, nested) ==
    [defined |-> defined, success |-> success, message |-> message,
     error |-> error, nested |-> nested]

B_undefined == Body(FALSE, "none", <<>>, <<>>, FALSE)
B_plain     == Body(TRUE, "none", <<>>, <<>>, FALSE)
B_wrapped   == Body(TRUE, "true", <<>>, <<>>, TRUE)
B_failure   == Body(TRUE, "false", S_BadRequest, <<>>, FALSE)
B_message   == Body(TRUE, "none", S_NotFound, <<>>, FALSE)
B_error     == Body(TRUE, "none", <<>>, S_BadRequest, FALSE)

\* What an awaited call (axios, pgQuery) does: resolves with a body, rejects
\* with an AxiosError (its response body, its message), with another Error, or
\* with a value that is no Error.
Resolved(body)        == [kind |-> "ok", body |-> body, message |-> <<>>]
AxiosError(body, msg) == [kind |-> "axios", body |-> body, message |-> msg]
PlainError(msg)       == [kind |-> "error", body |-> B_undefined, message |-> msg]
NonError              == [kind |-> "thrown", body |-> B_undefined, message |-> <<>>]

RemoteOutcomes ==
    { Resolved(B_plain), Resolved(B_wrapped), Resolved(B_undefined),
      Resolved(B_failure),
      AxiosError(B_message, S_ApiDown), AxiosError(B_error, S_ApiDown),
      AxiosError(B_undefined, S_ApiDown), PlainError(S_ErrTimeout), NonError }

\* api-client.ts: getApiErrorMessage
getApiErrorMessage(error) ==
    IF error.kind = "axios"
    THEN IF error.body.defined /\ error.body.message # <<>> THEN error.body.message
         ELSE IF error.body.defined /\ error.body.error # <<>> THEN error.body.error
         ELSE error.message
    ELSE IF error.kind = "error" THEN error.message
    ELSE S_UnknownError

\* Tools that resolve the credential with getToken() and wrap the response
WrapTools ==
    { "create_patient", "update_patient", "delete_patient",
      "get_checked_out_appointments", "get_appointment_doctors",
      "search_patient_mrn", "create_appointment", "update_appointment",
      "cancel_appointment", "create_doctor", "update_doctor", "delete_doctor",
      "get_invoice_details", "get_receipt_details", "get_billing_visits",
      "create_invoice", "create_receipt", "get_patient_allergies",
      "get_patient_emergency", "get_patient_info" }

\* ... and read members of (response.data?.data || response.data)
WrapDerefTools ==
    { "search_patients", "get_patient_details", "search_appointments",
      "search_doctors", "get_doctor_details", "search_invoices",
      "search_receipts" }

\* dashboard.tool.ts: return JSON.stringify(res.data)
BareTools ==
    { "get_dashboard_metrics", "get_dashboard_pipeline",
      "get_dashboard_schedule", "get_dashboard_revenue_trend" }

\* get_daily_summary: Promise.allSettled over two calls
SettledTools ==
    { "get_daily_summary" }

\* Tools of the scoped-context catalog: the credential comes from getToken()
ScopedTools ==
    WrapTools \cup WrapDerefTools \cup BareTools \cup SettledTools

\* DynamicTool wrappers reading the module-level authToken
LegacyCreateTools ==
    { "legacy_create_patient", "legacy_create_doctor", "legacy_create_appointment",
      "legacy_create_visit", "legacy_create_prescription" }

LegacyIdTools ==
    { "legacy_update_patient", "legacy_delete_patient", "legacy_update_doctor",
      "legacy_delete_doctor", "legacy_update_appointment",
      "legacy_delete_appointment", "legacy_update_visit", "legacy_delete_visit",
      "legacy_update_prescription", "legacy_delete_prescription" }

LegacyTools ==
    LegacyCreateTools \cup LegacyIdTools

DatabaseTools ==
    { "list_database_tables", "get_table_schema", "query_database" }

Catalog ==
    ScopedTools \cup LegacyTools \cup DatabaseTools

\* The id member an update/delete wrapper insists on
IdParam(name) ==
    CASE name \in {"legacy_update_patient", "legacy_delete_patient"} ->
           << "p","a","t","i","e","n","t","I","d" >>
      [] name \in {"legacy_update_doctor", "legacy_delete_doctor"} ->
           << "d","o","c","t","o","r","I","d" >>
      [] name \in {"legacy_update_appointment", "legacy_delete_appointment"} ->
           << "a","p","p","o","i","n","t","m","e","n","t","I","d" >>
      [] name \in {"legacy_update_visit", "legacy_delete_visit"} ->
           << "v","i","s","i","t","I","d" >>
      [] name \in {"legacy_update_prescription", "legacy_delete_prescription"} ->
           << "p","r","e","s","c","r","i","p","t","i","o","n","I","d" >>
      [] OTHER ->
           << "t","a","b","l","e","N","a","m","e" >>

\* The input string of a DynamicTool: a JSON object with the id member, one
\* without it, or text that JSON.parse rejects; for query_database, its text.
ToolInput(kind, text) ==
    [kind |-> kind, text |-> text]

\* What the body of a tool's try block does: returns an envelope or throws,
\* having made `http` calls to the EHR API with `used` as bearer token and `sql`
\* calls to pgQuery.
Returns(env, http, used, sql) ==
    [threw |-> FALSE, value |-> env, error |-> NonError, http |-> http,
     used |-> used, sql |-> sql]

Throws(err, http, used, sql) ==
    [threw |-> TRUE, value |-> ErrorEnvelope(<<>>), error |-> err, http |-> http,
     used |-> used, sql |-> sql]

\* Fault: the call is made without asking for the credential first
scopedTryUnchecked(name, current, remote) ==
    IF remote.kind # "ok" THEN Throws(remote, 1, current, 0)
    ELSE Returns(SuccessEnvelope, 1, current, 0)

\* function getToken(): throws when getCurrentToken() is null
\* then createApiClient(token) and one awaited call
scopedTry(name, current, remote) ==
    IF current = Null THEN Throws(PlainError(S_AuthRequired), 0, Null, 0)
    ELSE IF name \in SettledTools
    THEN \* allSettled: a rejected call is skipped; d.total reads a fulfilled one
         IF remote.kind = "ok" /\ ~remote.body.defined
         THEN Throws(PlainError(S_NullRead), 2, current, 0)
         ELSE Returns(SuccessEnvelope, 2, current, 0)
    ELSE IF remote.kind # "ok" THEN Throws(remote, 1, current, 0)
    ELSE IF name \in BareTools
    THEN Returns([defined |-> remote.body.defined, success |-> remote.body.success,
                  hasError |-> remote.body.error # <<>>, error |-> remote.body.error,
                  bare |-> TRUE], 1, current, 0)
    ELSE IF name \in WrapDerefTools /\ ~remote.body.defined
    THEN Throws(PlainError(S_NullRead), 1, current, 0)
    ELSE Returns(SuccessEnvelope, 1, current, 0)

\* legacy wrappers: if (!authToken) return {error}; JSON.parse(input || '{}');
\* id check; one awaited call
legacyTry(name, input, global, remote) ==
    IF global = Null \/ global = ""
    THEN Returns(ErrorEnvelope(S_AuthRequired), 0, Null, 0)
    ELSE IF input.kind = "invalid" THEN Throws(PlainError(S_SyntaxError), 0, Null, 0)
    ELSE IF name \in LegacyIdTools /\ input.kind = "noId"
    THEN Returns(ErrorEnvelope(IdParam(name) \o S_IsRequired), 0, Null, 0)
    ELSE IF remote.kind # "ok" THEN Throws(remote, 1, global, 0)
    ELSE Returns(SuccessEnvelope, 1, global, 0)

\* list_database_tables, get_table_schema: pgQuery, no credential
databaseTry(name, input, remote) ==
    IF name = "get_table_schema" /\ input.kind = "invalid"
    THEN Throws(PlainError(S_SyntaxError), 0, Null, 0)
    ELSE IF name = "get_table_schema" /\ input.kind = "noId"
    THEN Returns(ErrorEnvelope(IdParam(name) \o S_IsRequired), 0, Null, 0)
    ELSE IF remote.kind # "ok" THEN Throws(remote, 0, Null, 1)
    ELSE Returns(SuccessEnvelope, 0, Null, IF name = "get_table_schema" THEN 2 ELSE 1)

\* catch (error) of a tool: the envelope it returns for what the body threw
scopedCatch(t) ==
    IF t.threw
    THEN Returns(ErrorEnvelope(getApiErrorMessage(t.error)), t.http, t.used, t.sql)
    ELSE t

\* catch (error) of the database tools: error instanceof Error ? message : fixed
databaseCatch(name, t) ==
    IF t.threw
    THEN Returns(ErrorEnvelope(IF t.error.kind \in {"error", "axios"}
                               THEN t.error.message
                               ELSE IF name = "get_table_schema"
                                    THEN S_SchemaQueryFailed
                                    ELSE S_DbQueryFailed),
                 t.http, t.used, t.sql)
    ELSE t

\* query_database: its envelope, and its one call of pgQuery when it made it
queryDatabaseRun(q) ==
    Returns(q.result, 0, Null, IF q.executed THEN 1 ELSE 0)

\* A tool's func(input), run in a context where getCurrentToken() = current and
\* the module-level authToken = global, against the outcome `remote` of its call
toolFunc(name, input, current, global, remote) ==
    IF name \in ScopedTools THEN scopedCatch(scopedTry(name, current, remote))
    ELSE IF name \in LegacyTools
    THEN scopedCatch(legacyTry(name, input, global, remote))
    ELSE IF name = "query_database"
    THEN queryDatabaseRun(queryDatabaseFunc(input.text, remote.kind # "ok"))
    ELSE databaseCatch(name, databaseTry(name, input, remote))

\* ---------------------------------------------------------------- messages

\* Message content: a string, or an array of content blocks (one text block)
Text(s)   == [kind |-> "text", text |-> s]
Blocks(s) == [kind |-> "blocks", text |-> s]

SystemMessage(s) == [type |-> "system", content |-> Text(s), tool_calls |-> <<>>]
HumanMessage(s)  == [type |-> "human", content |-> Text(s), tool_calls |-> <<>>]
AIMessage(s)     == [type |-> "ai", content |-> Text(s), tool_calls |-> <<>>]
ToolMessage(s)   == [type |-> "tool", content |-> Text(s), tool_calls |-> <<>>]

\* What model.invoke does: an assistant message (content, tool calls), or an error
ModelReply(content, calls) ==
    [kind |-> "message", message |-> [type |-> "ai", content |-> content,
                                      tool_calls |-> calls],
     error |-> NonError]

ModelThrows(err) ==
    [kind |-> "throws", message |-> AIMessage(<<>>), error |-> err]

ToolCall(name, inputKind) ==
    [name |-> name, input |-> ToolInput(inputKind, <<>>)]

\* JSON.stringify of a tool's envelope, as the ToolMessage carries it
EnvelopeText(env) ==
    IF ~env.defined THEN <<>>
    ELSE IF env.hasError THEN S_ErrorBrace \o JsonEscape(env.error) \o S_CloseBrace
    ELSE IF env.success = "true" THEN S_SuccessBrace
    ELSE S_BareBrace

\* ------------------------------------------------------------ agent (agent.ts)

MAX_ITERATIONS == 15

\* SYSTEM_PROMPT
SYSTEM_PROMPT == S_SystemPrompt

\* shouldContinue: 'tools' when the last message is an assistant message with
\* tool calls, END otherwise
shouldContinue(messages) ==
    LET lastMessage == messages[Len(messages)]
    IN  IF lastMessage.type = "ai" /\ Len(lastMessage.tool_calls) > 0
        THEN "tools" ELSE "END"

\* Fault: no recursion limit
outOfStepsNever(step, recursionLimit) ==
    FALSE

\* agent.invoke({messages}, {recursionLimit}): LangGraph runs one node per
\* superstep, the first node at step 1, and gives up (GraphRecursionError) when
\* the step counter has passed the limit after a superstep.
outOfSteps(step, recursionLimit) ==
    step > recursionLimit

GraphRecursionError ==
    PlainError(S_RecursionHead \o Digits(MAX_ITERATIONS) \o S_RecursionTail)

IsPlainAI(m) ==
    m.type = "ai" /\ Len(m.tool_calls) = 0

\* JSON.stringify(content) for an array of content blocks
StringifyBlocks(c) ==
    S_BlockHead \o JsonEscape(c.text) \o S_BlockTail

\* Fault: the first assistant message instead of the last
firstAIResponse(aiResponses) ==
    aiResponses[1]

\* processMessage, after agent.invoke: the last assistant message without tool
\* calls; its content when a string, else JSON.stringify(content) || apology
lastAIResponse(aiResponses) ==
    aiResponses[Len(aiResponses)]

responseContent(finalMessages) ==
    LET aiResponses == SelectSeq(finalMessages, IsPlainAI)
    IN  IF aiResponses = <<>> THEN S_Apology
        ELSE LET lastResponse == lastAIResponse(aiResponses)
             IN  IF lastResponse.content.kind = "text" THEN lastResponse.content.text
                 ELSE StringifyBlocks(lastResponse.content)

\* processMessage, before agent.invoke: system prompt, history, new human message
initialMessages(message, conversationHistory) ==
    << SystemMessage(SYSTEM_PROMPT) >> \o conversationHistory
    \o << HumanMessage(message) >>

\* ----------------------------------------------- chat service (chat.service.ts)

RATE_LIMIT == 30
RATE_WINDOW == 60000
\* updatedHistory.slice(-20)
HISTORY_LIMIT == 20

MapSet(m, k, v) ==
    [x \in DOMAIN m \cup {k} |-> IF x = k THEN v ELSE m[x]]

MapDelete(m, k) ==
    [x \in DOMAIN m \ {k} |-> m[x]]

\* Map.prototype.delete returns whether the key was present
MapHas(m, k) ==
    k \in DOMAIN m

\* getHistory: conversationStore.get(conversationId) || []
getHistory(store, conversationId) ==
    IF MapHas(store, conversationId) THEN store[conversationId] ELSE <<>>

\* Array.prototype.slice(-n)
SliceLast(s, n) ==
    IF Len(s) <= n THEN s ELSE SubSeq(s, Len(s) - n + 1, Len(s))

\* Fault: count > RATE_LIMIT, one call too many
checkRateLimitLate(limiter, userId, t) ==
    IF userId \notin DOMAIN limiter \/ t > limiter[userId].resetAt
    THEN [threw |-> FALSE, message |-> <<>>,
          limiter |-> MapSet(limiter, userId,
                             [count |-> 1, resetAt |-> t + RATE_WINDOW])]
    ELSE IF limiter[userId].count > RATE_LIMIT
    THEN [threw |-> TRUE, message |-> S_RateLimitExceeded, limiter |-> limiter]
    ELSE [threw |-> FALSE, message |-> <<>>,
          limiter |-> [limiter EXCEPT ![userId].count = @ + 1]]

\* Fault: a rejected call is counted too
checkRateLimitCharging(limiter, userId, t) ==
    IF userId \notin DOMAIN limiter \/ t > limiter[userId].resetAt
    THEN [threw |-> FALSE, message |-> <<>>,
          limiter |-> MapSet(limiter, userId,
                             [count |-> 1, resetAt |-> t + RATE_WINDOW])]
    ELSE IF limiter[userId].count >= RATE_LIMIT
    THEN [threw |-> TRUE, message |-> S_RateLimitExceeded,
          limiter |-> [limiter EXCEPT ![userId].count = @ + 1]]
    ELSE [threw |-> FALSE, message |-> <<>>,
          limiter |-> [limiter EXCEPT ![userId].count = @ + 1]]

\* Fault: record.count++ is missing
checkRateLimitUncounted(limiter, userId, t) ==
    IF userId \notin DOMAIN limiter \/ t > limiter[userId].resetAt
    THEN [threw |-> FALSE, message |-> <<>>,
          limiter |-> MapSet(limiter, userId,
                             [count |-> 1, resetAt |-> t + RATE_WINDOW])]
    ELSE IF limiter[userId].count >= RATE_LIMIT
    THEN [threw |-> TRUE, message |-> S_RateLimitExceeded, limiter |-> limiter]
    ELSE [threw |-> FALSE, message |-> <<>>, limiter |-> limiter]

\* checkRateLimit(userId) at Date.now() = t: whether it throws, and the map after
checkRateLimit(limiter, userId, t) ==
    IF userId \notin DOMAIN limiter \/ t > limiter[userId].resetAt
    THEN [threw |-> FALSE, message |-> <<>>,
          limiter |-> MapSet(limiter, userId,
                             [count |-> 1, resetAt |-> t + RATE_WINDOW])]
    ELSE IF limiter[userId].count >= RATE_LIMIT
    THEN [threw |-> TRUE, message |-> S_RateLimitExceeded, limiter |-> limiter]
    ELSE [threw |-> FALSE, message |-> <<>>,
          limiter |-> [limiter EXCEPT ![userId].count = @ + 1]]

\* What the two prisma lookups of checkPermissions come to
Lookup(kind, message) ==
    [kind |-> kind, message |-> message]

\* checkPermissions returns before any lookup: root, or no groupId
bypassesLookup(user) ==
    user.accountType = S_root \/ user.groupId = ""

\* checkPermissions(user): whether it throws, and the error's message
checkPermissions(user, lookup) ==
    IF bypassesLookup(user)
    THEN [threw |-> FALSE, message |-> <<>>]
    ELSE IF lookup.kind = "throws"
    THEN \* catch: rethrown only when the message includes 'permission'
         [threw |-> Includes(lookup.message, S_permission), message |-> lookup.message]
    ELSE IF lookup.kind \in {"noPermission", "denied"}
    THEN [threw |-> Includes(S_NoPermission, S_permission), message |-> S_NoPermission]
    ELSE [threw |-> FALSE, message |-> <<>>]

\* addContext(message, user), the clock read at t (dates rendered as its digits)
addContext(message, user, t) ==
    S_ContextHead \o user.email \o S_ContextOpen \o user.accountType
    \o S_ContextClose \o S_ContextDate \o Digits(t) \o S_ContextTime \o Digits(t)
    \o S_ContextToday \o Digits(t) \o S_ContextTail \o message

\* catch (error) of chat: error instanceof Error ? error.message : 'An error occurred'
caughtMessage(error) ==
    IF error.kind \in {"error", "axios"} THEN error.message ELSE S_AnErrorOccurred

\* ... and the user-friendly message chosen for it
userMessage(errorMessage) ==
    IF Includes(errorMessage, S_rate_limit) \/ Includes(errorMessage, S_429)
    THEN S_HighDemand
    ELSE IF Includes(errorMessage, S_timeout) \/ Includes(errorMessage, S_ETIMEDOUT)
    THEN S_TookTooLong
    ELSE IF Includes(errorMessage, S_permission) THEN errorMessage
    ELSE S_Unexpected

\* Fault: slice(-19), one message short
trimmedHistoryShort(history, message, response) ==
    SliceLast(history \o << HumanMessage(message), AIMessage(response) >>,
              HISTORY_LIMIT - 1)

\* Fault: slice(0, 20), the oldest messages kept
trimmedHistoryOldest(history, message, response) ==
    SubSeq(history \o << HumanMessage(message), AIMessage(response) >>, 1,
           IF Len(history) + 2 < HISTORY_LIMIT THEN Len(history) + 2
           ELSE HISTORY_LIMIT)

\* updatedHistory.slice(-20) of [...history, HumanMessage, AIMessage]
trimmedHistory(history, message, response) ==
    SliceLast(history \o << HumanMessage(message), AIMessage(response) >>,
              HISTORY_LIMIT)

\* generateConversationId: conv_<Date.now()>_<random suffix>
generateConversationId(t, rnd) ==
    << "conv", t, rnd >>

HIDDEN_COLUMNS ==
    << <<"p","a","t","i","e","n","t","_","i","d">>,
       <<"d","o","c","t","o","r","_","i","d">>,
       <<"v","i","s","i","t","_","i","d">>,
       <<"a","p","p","o","i","n","t","m","e","n","t","_","i","d">>,
       <<"p","r","e","s","c","r","i","p","t","i","o","n","_","i","d">>,
       <<"i","d">>,
       <<"u","s","e","r","_","i","d">>,
       <<"g","r","o","u","p","_","i","d">>,
       <<"m","o","d","u","l","e","_","i","d">>,
       <<"l","o","c","a","t","i","o","n","_","i","d">>,
       <<"d","r","u","g","_","i","d">>,
       <<"a","l","l","e","r","g","y","_","i","d">>,
       <<"c","l","i","n","i","c","a","l","_","n","o","t","e","_","i","d">>,
       <<"i","n","v","o","i","c","e","_","i","d">>,
       <<"r","e","c","e","i","p","t","_","i","d">>,
       <<"d","o","c","u","m","e","n","t","_","i","d">>,
       <<"c","r","e","a","t","e","d","A","t">>,
       <<"c","r","e","a","t","e","d","B","y">>,
       <<"u","p","d","a","t","e","d","A","t">>,
       <<"u","p","d","a","t","e","d","B","y">>,
       <<"c","r","e","a","t","e","d","_","a","t">>,
       <<"c","r","e","a","t","e","d","_","b","y">>,
       <<"u","p","d","a","t","e","d","_","a","t">>,
       <<"u","p","d","a","t","e","d","_","b","y">>,
       <<"p","a","s","s","w","o","r","d">>,
       <<"p","a","s","s","w","o","r","d","H","a","s","h">>,
       <<"s","a","l","t">>,
       <<"r","e","f","r","e","s","h","T","o","k","e","n">>,
       <<"t","o","k","e","n">> >>

STATUS_COLUMNS ==
    << <<"s","t","a","t","u","s">>,
       <<"a","c","t","i","v","e","S","t","a","t","u","s">>,
       <<"a","c","t","i","v","e","_","s","t","a","t","u","s">>,
       <<"i","s","A","c","t","i","v","e">>,
       <<"i","s","_","a","c","t","i","v","e">>,
       <<"a","c","t","i","v","e">> >>


\* ------------------------------------------------- schema cache (schema-cache.ts)

\* String.prototype.toLowerCase, one character
LowerChar(c) ==
    IF \E i \in 1..26 : UpperChars[i] = c
    THEN LowerChars[CHOOSE i \in 1..26 : UpperChars[i] = c]
    ELSE c

ToLowerCase(s) ==
    [i \in 1..Len(s) |-> LowerChar(s[i])]

\* String.prototype.endsWith
EndsWith(s, sub) ==
    /\ Len(s) >= Len(sub)
    /\ SubSeq(s, Len(s) - Len(sub) + 1, Len(s)) = sub

\* Fault: the denylist only, no '_id' suffix rule
isHiddenColumnListed(columnName) ==
    \E i \in 1..Len(HIDDEN_COLUMNS) :
        ToLowerCase(HIDDEN_COLUMNS[i]) = ToLowerCase(columnName)

\* isHiddenColumn(columnName)
isHiddenColumn(columnName) ==
    LET lowerName == ToLowerCase(columnName)
    IN  \/ \E i \in 1..Len(HIDDEN_COLUMNS) :
              ToLowerCase(HIDDEN_COLUMNS[i]) = lowerName
        \/ (EndsWith(lowerName, S__id) /\ lowerName # S_mrn)

\* columns.filter(c => !isHiddenColumn(c.column_name)).map(c => c.column_name)
NotHidden(columnName) ==
    ~isHiddenColumn(columnName)

displayColumns(columns) ==
    SelectSeq(columns, NotHidden)

\* columns.find(c => STATUS_COLUMNS.includes(c.column_name))?.column_name || null
IsStatusColumn(columnName) ==
    \E i \in 1..Len(STATUS_COLUMNS) : STATUS_COLUMNS[i] = columnName

statusColumn(columns) ==
    IF SelectSeq(columns, IsStatusColumn) = <<>> THEN <<>>
    ELSE Head(SelectSeq(columns, IsStatusColumn))

\* One table of information_schema: its name and its column names in order
Table(tableName, columns) ==
    [tableName |-> tableName, columns |-> columns]

\* The TableSchema entries loadSchemaCache builds from the rows of pgQuery
TableSchema(table) ==
    [tableName |-> table.tableName, columns |-> table.columns,
     displayColumns |-> displayColumns(table.columns),
     statusColumn |-> statusColumn(table.columns)]

\* A module-level cache variable: null, or a value
NoCache ==
    [cached |-> FALSE, value |-> <<>>]

Cached(v) ==
    [cached |-> TRUE, value |-> v]

\* loadSchemaCache(): the cached schema when there is one (an empty array
\* counts); else the schema built from the database, which is cached; else,
\* when a query fails, [] with the cache left alone
loadSchemaCache(schemaCache, db, dbFails) ==
    IF schemaCache.cached
    THEN [schema |-> schemaCache.value, schemaCache |-> schemaCache,
          loaded |-> FALSE]
    ELSE IF dbFails
    THEN [schema |-> <<>>, schemaCache |-> schemaCache, loaded |-> FALSE]
    ELSE [schema |-> [i \in 1..Len(db) |-> TableSchema(db[i])],
          schemaCache |-> Cached([i \in 1..Len(db) |-> TableSchema(db[i])]),
          loaded |-> TRUE]

\* Array.prototype.join
RECURSIVE Join(_, _)
Join(parts, sep) ==
    IF parts = <<>> THEN <<>>
    ELSE IF Len(parts) = 1 THEN parts[1]
    ELSE parts[1] \o sep \o Join(Tail(parts), sep)

Quoted(name) ==
    << "\"" >> \o name \o << "\"" >>

\* The lines formatSchemaForPrompt pushes for one table
TableLines(table) ==
    IF table.displayColumns = <<>> THEN <<>>
    ELSE << S_TableHead \o table.tableName \o << "\"" >>
            \o (IF table.statusColumn = <<>> THEN <<>>
                ELSE S_FilterHead \o table.statusColumn \o S_FilterTail),
            S_ColumnsHead
            \o Join([i \in 1..Len(table.displayColumns) |->
                        Quoted(table.displayColumns[i])], << ",", " " >>),
            <<>> >>

RECURSIVE SchemaLines(_)
SchemaLines(schema) ==
    IF schema = <<>> THEN <<>>
    ELSE TableLines(Head(schema)) \o SchemaLines(Tail(schema))

\* formatSchemaForPrompt(schema)
formatSchemaForPrompt(schema) ==
    IF Len(schema) = 0 THEN S_SchemaNotAvailable
    ELSE Join(<< S_SchemaTitle, <<>>, S_SchemaImportant, <<>> >>
              \o SchemaLines(schema), << "\n" >>)

\* BASE_SYSTEM_PROMPT (its first line)
BASE_SYSTEM_PROMPT ==
    S_BasePrompt

\* The prompt text for a schema
promptText(schema) ==
    BASE_SYSTEM_PROMPT \o << "\n" >> \o formatSchemaForPrompt(schema)

\* getSystemPrompt after `await loadSchemaCache()`: the prompt is cached
assemblePrompt(load) ==
    [prompt |-> promptText(load.schema),
     cachedSystemPrompt |-> Cached(promptText(load.schema)),
     schemaCache |-> load.schemaCache, loaded |-> load.loaded]

\* getSystemPrompt(): the cached prompt when there is one (a non-empty string);
\* else the base prompt and the formatted schema, which is cached.
\* loadSchemaCache never rejects, so the catch of getSystemPrompt is not reached.
getSystemPrompt(cachedSystemPrompt, schemaCache, db, dbFails) ==
    IF cachedSystemPrompt.cached /\ cachedSystemPrompt.value # <<>>
    THEN [prompt |-> cachedSystemPrompt.value,
          cachedSystemPrompt |-> cachedSystemPrompt,
          schemaCache |-> schemaCache, loaded |-> FALSE]
    ELSE assemblePrompt(loadSchemaCache(schemaCache, db, dbFails))

\* clearSchemaCache(): schemaCache = null
clearSchemaCache(schemaCache) ==
    NoCache
\* -------------------------------------------------------------------- state

VARIABLES
    now,                \* Date.now()
    ticks,              \* clock advances so far
    calls,              \* chat calls so far
    rateLimiter,        \* Map userId -> {count, resetAt}
    conversationStore,  \* Map conversationId -> messages
    tokenStorage,       \* the AsyncLocalStorage store of each async context
    authToken,          \* module-level authToken of the legacy tools
    req,                \* the chat call running in each async context
    completed,          \* per conversation: successful turns since the last clear
    windows,            \* per user: the rate window as its calls counted it
    lastRate,           \* the last checkRateLimit call
    toolCase,           \* one tool invocation and its outcome
    queryCase,          \* one query_database invocation and its outcome
    schemaState,        \* the database schema, schemaCache and cachedSystemPrompt
    extent,             \* per async context: its runWithToken extent and the reads
    cleared             \* clearConversation: ids cleared and its last call

vars ==
    << now, ticks, calls, rateLimiter, conversationStore, tokenStorage, authToken,
       req, completed, windows, lastRate, toolCase, queryCase, schemaState,
       extent, cleared >>

chatVars ==
    << now, ticks, calls, rateLimiter, conversationStore, tokenStorage, authToken,
       req, completed, windows, lastRate, extent, cleared >>

serviceVars ==
    << now, ticks, calls, rateLimiter, conversationStore, tokenStorage, authToken,
       req, completed, windows, lastRate, schemaState, extent, cleared >>

\* Async contexts: one per HTTP request being served
Reqs == { "r1", "r2" }

\* UserContext of the authenticated caller
UserContext(userId, email, accountType, groupId) ==
    [userId |-> userId, email |-> email, accountType |-> accountType,
     groupId |-> groupId]

RootUser  == UserContext("uA", S_EmailA, S_root, "")
StaffUser == UserContext("uB", S_EmailB, S_staff, "g1")
GuestUser == UserContext("uC", S_EmailB, S_staff, "")
NoUser    == UserContext("", <<>>, <<>>, "")

\* What chat settles to: a ChatResponse it resolves with, or an error it rejects with
NoResult ==
    [kind |-> "none", success |-> FALSE, response |-> <<>>,
     conversationId |-> <<>>, error |-> <<>>]

ChatResponse(success, response, convId) ==
    [kind |-> "resolved", success |-> success, response |-> response,
     conversationId |-> convId, error |-> <<>>]

Rejection(message) ==
    [kind |-> "rejected", success |-> FALSE, response |-> <<>>,
     conversationId |-> <<>>, error |-> message]

\* A context with no chat call in it
IdleReq ==
    [pc |-> "idle", user |-> NoUser, token |-> Null, message |-> <<>>,
     convId |-> <<>>, history |-> <<>>, messages |-> <<>>, step |-> 0,
     modelCalls |-> 0, toolRuns |-> 0, observed |-> {},
     firstReply |-> ModelThrows(NonError), failedAt |-> "none",
     exhausted |-> FALSE, lookup |-> Lookup("none", <<>>), stale |-> FALSE,
     legacyUsed |-> {},
     storedBefore |-> <<>>, written |-> <<>>, result |-> NoResult]

\* A context that has not called runWithToken
NoExtent ==
    [active |-> FALSE, token |-> Null, runs |-> 0, settled |-> "none",
     inside |-> {}, outside |-> {}]

\* No clearConversation call yet
NoClear ==
    [pending |-> {}, called |-> FALSE, stored |-> FALSE, returned |-> FALSE]

\* The legacy agent module before its first request, on a database db
NoPrompt ==
    [made |-> FALSE, prompt |-> <<>>, db |-> <<>>, dbFails |-> FALSE,
     afterClear |-> FALSE, loaded |-> FALSE]

InitSchema(db) ==
    [db |-> db, dbFails |-> FALSE, schemaCache |-> NoCache,
     cachedSystemPrompt |-> NoCache, clearPending |-> FALSE, calls |-> 0,
     firstFailed |-> FALSE, last |-> NoPrompt]

NoRate ==
    [userId |-> "", nth |-> 0, opened |-> FALSE, threw |-> FALSE,
     message |-> <<>>, count |-> 0]

InitService ==
    /\ now = 0
    /\ ticks = 0
    /\ calls = 0
    /\ rateLimiter = << >>
    /\ conversationStore = << >>
    /\ tokenStorage = [c \in Reqs |-> Null]
    /\ authToken = Null
    /\ req = [c \in Reqs |-> IdleReq]
    /\ completed = << >>
    /\ windows = << >>
    /\ lastRate = NoRate
    /\ schemaState = InitSchema(<<>>)
    /\ extent = [c \in Reqs |-> NoExtent]
    /\ cleared = NoClear

\* ------------------------------------------------------------------ actions

\* The rate window as the calls of one user count it: a call later than
\* RATE_WINDOW after the window's first call opens the next window
countedWindow(userId, t) ==
    IF userId \in DOMAIN windows /\ t <= windows[userId].opened + RATE_WINDOW
    THEN [windows[userId] EXCEPT !.seen = @ + 1]
    ELSE [opened |-> t, seen |-> 1, passed |-> 0]

\* ... and how many of the window's calls went past checkRateLimit
countedPass(w, threw) ==
    IF threw THEN w ELSE [w EXCEPT !.passed = @ + 1]

\* chat, up to its first await: checkRateLimit, convId, history
ChatStart(r, user, token, conversationId, message, rnd, maxCalls) ==
    /\ req[r].pc = "idle"
    /\ calls < maxCalls
    /\ LET rl      == checkRateLimit(rateLimiter, user.userId, now)
           convId  == IF conversationId = <<>>
                      THEN generateConversationId(now, rnd) ELSE conversationId
           history == getHistory(conversationStore, convId)
           w       == countedPass(countedWindow(user.userId, now), rl.threw)
       IN  /\ rateLimiter' = rl.limiter
           /\ req' = [req EXCEPT ![r] =
                        IF rl.threw
                        THEN [IdleReq EXCEPT !.pc = "done", !.user = user,
                                             !.token = token, !.message = message,
                                             !.failedAt = "rateLimit",
                                             !.result = Rejection(rl.message)]
                        ELSE [IdleReq EXCEPT !.pc = "permissions", !.user = user,
                                             !.token = token, !.message = message,
                                             !.convId = convId,
                                             !.history = history]]
           /\ windows' = MapSet(windows, user.userId, w)
           /\ lastRate' = [userId |-> user.userId, nth |-> w.seen,
                           opened |-> w.seen = 1, threw |-> rl.threw,
                           message |-> rl.message,
                           count |-> rl.limiter[user.userId].count]
    /\ calls' = calls + 1
    /\ UNCHANGED << now, ticks, conversationStore, tokenStorage, authToken,
                    completed, toolCase, queryCase, schemaState, extent, cleared >>

\* chat from `await this.checkPermissions(user)` to the first model call:
\* a throw here is outside the try block; otherwise addContext, runWithToken,
\* processMessage up to agent.invoke
PermissionsAndEntry(r, lookup) ==
    /\ req[r].pc = "permissions"
    /\ LET q == req[r]
           p == checkPermissions(q.user, lookup)
           k == IF bypassesLookup(q.user) THEN Lookup("none", <<>>) ELSE lookup
       IN  IF p.threw
           THEN /\ req' = [req EXCEPT ![r] =
                             [q EXCEPT !.pc = "done", !.failedAt = "permissions",
                                       !.lookup = k,
                                       !.result = Rejection(p.message)]]
                /\ UNCHANGED tokenStorage
           ELSE /\ req' = [req EXCEPT ![r] =
                             [q EXCEPT !.pc = "agent", !.step = 1, !.lookup = k,
                                       !.messages =
                                          initialMessages(
                                             addContext(q.message, q.user, now),
                                             q.history)]]
                /\ tokenStorage' = tokenStorageRun(tokenStorage, r, q.token)
    /\ UNCHANGED << now, ticks, calls, rateLimiter, conversationStore, completed,
                    windows, lastRate, toolCase, queryCase, schemaState, extent,
                    cleared >>

CheckPermissions(r, lookup) ==
    /\ PermissionsAndEntry(r, lookup)
    /\ UNCHANGED authToken

\* The same with the legacy processMessage, which begins with
\* setAuthToken(token): the module-level authToken of the legacy tools
LegacyProcessMessage(r, lookup) ==
    /\ PermissionsAndEntry(r, lookup)
    /\ authToken' = IF checkPermissions(req[r].user, lookup).threw THEN authToken
                    ELSE setAuthToken(req[r].token)

\* Fault: the catch stores the human message of the failed turn
ChatFailsStoring(r, q, error) ==
    /\ req' = [req EXCEPT ![r] =
                 [q EXCEPT !.pc = "done", !.failedAt = "loop",
                           !.result = ChatResponse(FALSE,
                                         userMessage(caughtMessage(error)),
                                         q.convId)]]
    /\ tokenStorage' = tokenStorageExit(tokenStorage, r)
    /\ conversationStore' =
           MapSet(conversationStore, q.convId,
                  q.history \o << HumanMessage(q.message) >>)
    /\ UNCHANGED << completed, cleared >>

\* catch (error) of chat: success:false with the user message. The history
\* is left as it was.
ChatFails(r, q, error) ==
    /\ req' = [req EXCEPT ![r] =
                 [q EXCEPT !.pc = "done", !.failedAt = "loop",
                           !.result = ChatResponse(FALSE,
                                         userMessage(caughtMessage(error)),
                                         q.convId)]]
    /\ tokenStorage' = tokenStorageExit(tokenStorage, r)
    /\ UNCHANGED << conversationStore, completed, cleared >>

\* Fault: the history keeps the message the loop was given
loopHumanText(q) ==
    q.messages[Len(q.history) + 2].content.text

\* new HumanMessage(message) of updatedHistory: the caller's message
storedHumanText(q) ==
    q.message

\* processMessage after agent.invoke, and chat after runWithToken: the response,
\* the history update, success:true
ChatSucceeds(r, q) ==
    LET response == responseContent(q.messages)
        before   == IF q.convId \in DOMAIN completed THEN completed[q.convId]
                    ELSE [turns |-> 0, log |-> <<>>]
    IN  /\ conversationStore' =
               MapSet(conversationStore, q.convId,
                      trimmedHistory(q.history, storedHumanText(q), response))
        /\ completed' =
               MapSet(completed, q.convId,
                      [turns |-> before.turns + 1,
                       log |-> before.log \o << HumanMessage(q.message),
                                                AIMessage(response) >>])
        /\ req' = [req EXCEPT ![r] =
                     [q EXCEPT !.pc = "done",
                               !.storedBefore =
                                  getHistory(conversationStore, q.convId),
                               !.written =
                                  trimmedHistory(q.history, storedHumanText(q),
                                                 response),
                               !.result = ChatResponse(TRUE, response, q.convId)]]
        /\ cleared' = IF q.stale THEN cleared
                      ELSE [cleared EXCEPT !.pending = @ \ { q.convId }]
        /\ tokenStorage' = tokenStorageExit(tokenStorage, r)

\* The graph after a superstep: out of steps, the next node, or END
AfterSuperstep(r, q, node) ==
    IF outOfSteps(q.step, MAX_ITERATIONS)
    THEN ChatFails(r, [q EXCEPT !.exhausted = TRUE], GraphRecursionError)
    ELSE IF node = "tools"
    THEN /\ req' = [req EXCEPT ![r] = [q EXCEPT !.pc = "agent"]]
         /\ UNCHANGED << conversationStore, completed, tokenStorage, cleared >>
    ELSE IF shouldContinue(q.messages) = "tools"
    THEN /\ req' = [req EXCEPT ![r] = [q EXCEPT !.pc = "tools"]]
         /\ UNCHANGED << conversationStore, completed, tokenStorage, cleared >>
    ELSE ChatSucceeds(r, q)

\* The 'agent' node: callAgent awaits model.invoke(state.messages). The model
\* asks for tools in at most maxRounds rounds.
AgentStep(r, reply, maxRounds) ==
    /\ req[r].pc = "agent"
    /\ (reply.kind = "message" /\ Len(reply.message.tool_calls) > 0)
          => req[r].toolRuns < maxRounds
    /\ LET q  == req[r]
           q1 == [q EXCEPT !.modelCalls = @ + 1,
                           !.firstReply = IF q.modelCalls = 0 THEN reply ELSE @]
       IN  IF reply.kind = "throws"
           THEN ChatFails(r, q1, reply.error)
           ELSE AfterSuperstep(r, [q1 EXCEPT !.step = @ + 1,
                                             !.messages = Append(@, reply.message)],
                               "agent")
    /\ UNCHANGED << now, ticks, calls, rateLimiter, authToken, windows, lastRate,
                    toolCase, queryCase, schemaState, extent >>

\* The 'tools' node: ToolNode runs the tool calls of the last assistant message
\* in the request's async context and appends one ToolMessage per call
ToolsStep(r, remote) ==
    /\ req[r].pc = "tools"
    /\ LET q        == req[r]
           asked    == q.messages[Len(q.messages)].tool_calls
           current  == getCurrentToken(tokenStorage, r)
           out(i)   == toolFunc(asked[i].name, asked[i].input, current,
                                authToken, remote)
           answers  == [i \in 1..Len(asked) |->
                           ToolMessage(EnvelopeText(out(i).value))]
           reads    == { current : i \in { j \in 1..Len(asked) :
                                             asked[j].name \in ScopedTools } }
           legacy   == { out(i).used : i \in { j \in 1..Len(asked) :
                                                asked[j].name \in LegacyTools } }
       IN  AfterSuperstep(r, [q EXCEPT !.step = @ + 1, !.toolRuns = @ + 1,
                                       !.messages = @ \o answers,
                                       !.observed = @ \cup reads,
                                       !.legacyUsed = @ \cup legacy],
                          "tools")
    /\ UNCHANGED << now, ticks, calls, rateLimiter, authToken, windows, lastRate,
                    toolCase, queryCase, schemaState, extent >>

\* The controller has sent the response: the context is gone
Deliver(r) ==
    /\ req[r].pc = "done"
    /\ req' = [req EXCEPT ![r] = IdleReq]
    /\ UNCHANGED << now, ticks, calls, rateLimiter, conversationStore,
                    tokenStorage, authToken, completed, windows, lastRate,
                    toolCase, queryCase, schemaState, extent, cleared >>

\* Time passes
Tick(d, maxTicks) ==
    /\ ticks < maxTicks
    /\ now' = now + d
    /\ ticks' = ticks + 1
    /\ UNCHANGED << calls, rateLimiter, conversationStore, tokenStorage, authToken,
                    req, completed, windows, lastRate, toolCase, queryCase, schemaState, extent, cleared >>

\* clearConversation: return conversationStore.delete(conversationId). The
\* chat calls on the id that are past their history snapshot are marked stale.
ClearConversation(conversationId) ==
    /\ conversationStore' = MapDelete(conversationStore, conversationId)
    /\ completed' = MapDelete(completed, conversationId)
    /\ cleared' = [pending  |-> cleared.pending \cup { conversationId },
                   called   |-> TRUE,
                   stored   |-> getHistory(conversationStore, conversationId) # <<>>,
                   returned |-> MapHas(conversationStore, conversationId)]
    /\ req' = [c \in Reqs |->
                 IF req[c].pc \in { "permissions", "agent", "tools" }
                    /\ req[c].convId = conversationId
                 THEN [req[c] EXCEPT !.stale = TRUE] ELSE req[c]]
    /\ UNCHANGED << now, ticks, calls, rateLimiter, tokenStorage, authToken,
                    windows, lastRate, toolCase, queryCase, schemaState, extent >>


\* runWithToken(token, fn) called in context c: tokenStorage.run(token, fn)
RunWithToken(c, token, maxRuns) ==
    /\ ~extent[c].active
    /\ extent[c].runs < maxRuns
    /\ tokenStorage' = tokenStorageRun(tokenStorage, c, token)
    /\ extent' = [extent EXCEPT ![c] =
                    [@ EXCEPT !.active = TRUE, !.token = token, !.runs = @ + 1,
                              !.settled = "none", !.inside = {}]]
    /\ UNCHANGED << now, ticks, calls, rateLimiter, conversationStore, authToken,
                    req, completed, windows, lastRate, toolCase, queryCase, schemaState,
                    cleared >>

\* getCurrentToken() called in context c: by fn or the asynchronous work it
\* started while the extent is open, by other code of the context otherwise
ReadToken(c) ==
    /\ LET token == getCurrentToken(tokenStorage, c)
       IN  extent' = [extent EXCEPT ![c] =
                        IF extent[c].active
                        THEN [@ EXCEPT !.inside = @ \cup { token }]
                        ELSE [@ EXCEPT !.outside = @ \cup { token }]]
    /\ UNCHANGED << now, ticks, calls, rateLimiter, conversationStore,
                    tokenStorage, authToken, req, completed, windows, lastRate,
                    toolCase, queryCase, schemaState, cleared >>

\* The promise of fn settles, fulfilled or rejected: the extent is over
SettleToken(c, how) ==
    /\ extent[c].active
    /\ tokenStorage' = tokenStorageExit(tokenStorage, c)
    /\ extent' = [extent EXCEPT ![c] = [@ EXCEPT !.active = FALSE, !.settled = how]]
    /\ UNCHANGED << now, ticks, calls, rateLimiter, conversationStore, authToken,
                    req, completed, windows, lastRate, toolCase, queryCase, schemaState,
                    cleared >>

\* A request of the legacy agent asks for the system prompt: getSystemPrompt().
\* firstFailed: the load failed when the prompt was first assembled, and the
\* database's schema is still the one of that moment
GetSystemPrompt(maxPrompts) ==
    /\ schemaState.calls < maxPrompts
    /\ LET s == schemaState
           g == getSystemPrompt(s.cachedSystemPrompt, s.schemaCache, s.db, s.dbFails)
       IN  schemaState' =
              [s EXCEPT !.cachedSystemPrompt = g.cachedSystemPrompt,
                        !.schemaCache = g.schemaCache,
                        !.clearPending = FALSE,
                        !.calls = @ + 1,
                        !.firstFailed = IF s.calls = 0 THEN s.dbFails ELSE @,
                        !.last = [made |-> TRUE, prompt |-> g.prompt, db |-> s.db,
                                  dbFails |-> s.dbFails,
                                  afterClear |-> s.clearPending,
                                  loaded |-> g.loaded]]
    /\ UNCHANGED << chatVars, toolCase, queryCase >>

\* clearSchemaCache()
ClearSchemaCache ==
    /\ schemaState' = [schemaState EXCEPT
                          !.schemaCache = clearSchemaCache(@),
                          !.clearPending = TRUE]
    /\ UNCHANGED << chatVars, toolCase, queryCase >>

\* The database: its schema is altered, it goes down or comes back
AlterSchema(db) ==
    /\ db # schemaState.db
    /\ schemaState' = [schemaState EXCEPT !.db = db, !.firstFailed = FALSE]
    /\ UNCHANGED << chatVars, toolCase, queryCase >>

DatabaseTurns(dbFails) ==
    /\ dbFails # schemaState.dbFails
    /\ schemaState' = [schemaState EXCEPT !.dbFails = dbFails]
    /\ UNCHANGED << chatVars, toolCase, queryCase >>
\* ------------------------------------------------------------ specifications

NoToolCase ==
    [name |-> "", input |-> ToolInput("object", <<>>), current |-> Null,
     global |-> Null, remote |-> NonError, ran |-> FALSE,
     out |-> Returns(ErrorEnvelope(<<>>), 0, Null, 0)]

NoQueryCase ==
    [input |-> <<>>, pgFails |-> FALSE, ran |-> FALSE,
     out |-> [result |-> ErrorEnvelope(<<>>), executed |-> FALSE,
              statement |-> <<>>]]

\* Callers: an authenticated user and the bearer token of the request
Sessions ==
    { [user |-> RootUser, token |-> "tokA"],
      [user |-> StaffUser, token |-> "tokB"] }

Lookups ==
    { Lookup("granted", <<>>), Lookup("denied", <<>>),
      Lookup("noPermission", <<>>), Lookup("noModule", <<>>),
      Lookup("throws", S_DbDown), Lookup("throws", S_PrismaPermission) }

AskTool(name) ==
    ModelReply(Text(<<>>), << ToolCall(name, "object") >>)

BasicReplies ==
    { ModelReply(Text(S_Hello), <<>>), AskTool("get_patient_info"),
      ModelThrows(PlainError(S_ErrTimeout)) }

\* Concurrent chat calls at one instant of the clock
MaxCalls == 2
MaxRounds == 1

Init ==
    /\ InitService
    /\ toolCase = NoToolCase
    /\ queryCase = NoQueryCase

Next ==
    \/ \E r \in Reqs, s \in Sessions, c \in { <<>>, << "c1" >> } :
          ChatStart(r, s.user, s.token, c, S_hi, 1, MaxCalls)
    \/ \E r \in Reqs, l \in { Lookup("granted", <<>>), Lookup("denied", <<>>) } :
          CheckPermissions(r, l)
    \/ \E r \in Reqs, reply \in BasicReplies : AgentStep(r, reply, MaxRounds)
    \/ \E r \in Reqs : ToolsStep(r, Resolved(B_wrapped))
    \/ \E r \in Reqs : Deliver(r)
    \/ ClearConversation(<< "c1" >>)

Spec ==
    Init /\ [][Next]_vars

\* One conversation, every model behaviour: plain answers (text, empty text,
\* content blocks), tool requests at every invocation, failures
LoopReplies ==
    { ModelReply(Text(S_Hello), <<>>), ModelReply(Text(S_yo), <<>>),
      ModelReply(Text(<<>>), <<>>), ModelReply(Blocks(S_Hello), <<>>),
      AskTool("get_patient_info"),
      ModelReply(Text(S_yo), << ToolCall("get_dashboard_metrics", "object") >>),
      ModelThrows(PlainError(S_Err429)), ModelThrows(PlainError(S_ErrBoom)),
      ModelThrows(PlainError(S_ModelPermission)), ModelThrows(NonError) }

LoopCalls == 2

NextLoop ==
    \/ ChatStart("r1", StaffUser, "tokB", << "c1" >>, S_hi, 1, LoopCalls)
    \/ CheckPermissions("r1", Lookup("granted", <<>>))
    \/ \E reply \in LoopReplies : AgentStep("r1", reply, MAX_ITERATIONS)
    \/ ToolsStep("r1", Resolved(B_wrapped))
    \/ Deliver("r1")

SpecLoop ==
    Init /\ [][NextLoop]_vars

\* Turns of one conversation, one after another, cleared only between turns;
\* the k-th message says k
MaxTurns == 12

NextTurns ==
    \/ ChatStart("r1", RootUser, "tokA", << "c1" >>, Digits(calls), 1, MaxTurns)
    \/ CheckPermissions("r1", Lookup("granted", <<>>))
    \/ \E reply \in { ModelReply(Text(S_Hello), <<>>),
                      ModelThrows(PlainError(S_ErrTimeout)) } :
          AgentStep("r1", reply, 0)
    \/ Deliver("r1")
    \/ req["r1"].pc = "idle" /\ ClearConversation(<< "c1" >>)

SpecTurns ==
    Init /\ [][NextTurns]_vars

\* One user's calls against the clock
MaxRateCalls == 32
MaxRateTicks == 2

NextRate ==
    \/ ChatStart("r1", RootUser, "tokA", << "c1" >>, S_hi, 1, MaxRateCalls)
    \/ CheckPermissions("r1", Lookup("granted", <<>>))
    \/ AgentStep("r1", ModelReply(Text(S_Hello), <<>>), 0)
    \/ Deliver("r1")
    \/ \E d \in { 1, RATE_WINDOW } : Tick(d, MaxRateTicks)

SpecRate ==
    Init /\ [][NextRate]_vars

\* One invocation of a tool of the catalog
ToolInputs ==
    { ToolInput(k, t) : k \in { "object", "noId", "invalid" },
                        t \in { <<>>, F_Select } }

ToolCases ==
    { [NoToolCase EXCEPT !.name = n, !.input = i, !.current = c, !.global = g,
                         !.remote = o] :
        n \in Catalog, i \in ToolInputs, c \in { Null, "tokA" },
        g \in { Null, "tokG" }, o \in RemoteOutcomes }

InitTool ==
    /\ InitService
    /\ toolCase \in ToolCases
    /\ queryCase = NoQueryCase

RunTool ==
    /\ ~toolCase.ran
    /\ toolCase' = [toolCase EXCEPT !.ran = TRUE,
                                    !.out = toolFunc(toolCase.name, toolCase.input,
                                                     toolCase.current,
                                                     toolCase.global,
                                                     toolCase.remote)]
    /\ UNCHANGED << serviceVars, queryCase >>

SpecTool ==
    InitTool /\ [][RunTool]_vars

\* One invocation of query_database: plain SQL, or a JSON text
QueryInputs ==
    Texts(MaxFrags) \cup { JsonTexts[v] : v \in DOMAIN JsonTexts }

InitQuery ==
    /\ InitService
    /\ toolCase = NoToolCase
    /\ queryCase \in { [NoQueryCase EXCEPT !.input = i, !.pgFails = f] :
                         i \in QueryInputs, f \in BOOLEAN }

RunQuery ==
    /\ ~queryCase.ran
    /\ queryCase' = [queryCase EXCEPT !.ran = TRUE,
                                      !.out = queryDatabaseFunc(queryCase.input,
                                                                queryCase.pgFails)]
    /\ UNCHANGED << serviceVars, toolCase >>

SpecQuery ==
    InitQuery /\ [][RunQuery]_vars


\* runWithToken / getCurrentToken on their own: two async contexts, each running
\* up to MaxRuns extents under any token string, the empty one included
MaxRuns == 2

TokenStrings == { "", "tokA", "tokB" }

NextToken ==
    \/ \E c \in Reqs, t \in TokenStrings : RunWithToken(c, t, MaxRuns)
    \/ \E c \in Reqs : ReadToken(c)
    \/ \E c \in Reqs, how \in { "fulfilled", "rejected" } : SettleToken(c, how)

SpecToken ==
    Init /\ [][NextToken]_vars

\* The permission check on its own: calls made one after another by a root
\* user, a staff user with a group and a staff user without one, under every
\* outcome of the lookup
PermCalls == 2

PermSessions ==
    Sessions \cup { [user |-> GuestUser, token |-> "tokC"] }

NextPerm ==
    \/ \E s \in PermSessions, c \in { <<>>, << "c1" >> } :
          ChatStart("r1", s.user, s.token, c, S_hi, 1, PermCalls)
    \/ \E l \in Lookups : CheckPermissions("r1", l)
    \/ \E reply \in BasicReplies : AgentStep("r1", reply, MaxRounds)
    \/ ToolsStep("r1", Resolved(B_wrapped))
    \/ Deliver("r1")

SpecPerm ==
    Init /\ [][NextPerm]_vars

\* The schema cache and the legacy system prompt: the database has no table, a
\* Patient table, the Patient table with a column more, or also an Audit table
\* with hidden columns only
PatientColumns ==
    << N_patient_id, N_firstName, S_mrn, N_createdAt, N_status, N_Patient_ID >>

DbSchemas ==
    { <<>>,
      << Table(N_Patient, PatientColumns) >>,
      << Table(N_Patient, PatientColumns \o << N_idx, N_foo_id >>) >>,
      << Table(N_Audit, << N_CREATEDAT, N_token, N_foo_id >>),
         Table(N_Patient, PatientColumns) >> }

MaxPrompts == 3

NextSchema ==
    \/ GetSystemPrompt(MaxPrompts)
    \/ ClearSchemaCache
    \/ \E db \in DbSchemas : AlterSchema(db)
    \/ \E f \in BOOLEAN : DatabaseTurns(f)

SpecSchema ==
    Init /\ [][NextSchema]_vars

\* The legacy variant: processMessage sets the module-level token and the model
\* asks for the legacy tools; two calls with different tokens
LegacyReplies ==
    { ModelReply(Text(S_Hello), <<>>), AskTool("legacy_create_patient"),
      AskTool("legacy_create_doctor") }

LegacyCalls == 2

NextLegacy ==
    \/ \E r \in Reqs, s \in Sessions :
          ChatStart(r, s.user, s.token, << "c1" >>, S_hi, 1, LegacyCalls)
    \/ \E r \in Reqs : LegacyProcessMessage(r, Lookup("granted", <<>>))
    \/ \E r \in Reqs, reply \in LegacyReplies : AgentStep(r, reply, MaxRounds)
    \/ \E r \in Reqs : ToolsStep(r, Resolved(B_wrapped))
    \/ \E r \in Reqs : Deliver(r)

SpecLegacy ==
    Init /\ [][NextLegacy]_vars

\* One user's calls against the clock, up to two of them in flight
BurstCalls == 33

NextBurst ==
    \/ \E r \in Reqs :
          ChatStart(r, RootUser, "tokA", << "c1" >>, S_hi, 1, BurstCalls)
    \/ \E r \in Reqs : CheckPermissions(r, Lookup("granted", <<>>))
    \/ \E r \in Reqs : AgentStep(r, ModelThrows(PlainError(S_ErrTimeout)), 0)
    \/ \E r \in Reqs : Deliver(r)
    \/ \E d \in { 1, RATE_WINDOW } : Tick(d, MaxRateTicks)

SpecBurst ==
    Init /\ [][NextBurst]_vars

\* Two users' calls, one of them up to and past the limit; the turns succeed
RejectCalls == 33

NextReject ==
    \/ \E s \in Sessions :
          ChatStart("r1", s.user, s.token, << "c1" >>, S_hi, 1, RejectCalls)
    \/ CheckPermissions("r1", Lookup("granted", <<>>))
    \/ AgentStep("r1", ModelReply(Text(S_Hello), <<>>), 0)
    \/ Deliver("r1")
    \/ Tick(1, 1)

SpecReject ==
    Init /\ [][NextReject]_vars

\* Two users on one conversation id; each user always sends the same message,
\* so a stored human message tells who sent it
ShareSessions ==
    { [user |-> RootUser, token |-> "tokA", message |-> S_hi],
      [user |-> StaffUser, token |-> "tokB", message |-> S_yo] }

ShareCalls == 3

NextShare ==
    \/ \E r \in Reqs, s \in ShareSessions :
          ChatStart(r, s.user, s.token, << "c1" >>, s.message, 1, ShareCalls)
    \/ \E r \in Reqs : CheckPermissions(r, Lookup("granted", <<>>))
    \/ \E r \in Reqs : AgentStep(r, ModelReply(Text(S_Hello), <<>>), 0)
    \/ \E r \in Reqs : Deliver(r)
    \/ ClearConversation(<< "c1" >>)

SpecShare ==
    Init /\ [][NextShare]_vars
\* --------------------------------------------------------------- properties

Min(a, b) ==
    IF a < b THEN a ELSE b

\* C1: every getCurrentToken() call made inside a request's extent, the tool
\* executions it triggers included, returns the token that request was bound
\* with, however the steps of concurrent requests interleave.
C1_OwnToken ==
    \A r \in Reqs : req[r].observed \subseteq { req[r].token }

\* Two requests bound to different tokens are in flight, and the tools of both
\* have read the current token
C1_Interleaved ==
    /\ req["r1"].pc = "agent" /\ req["r2"].pc = "agent"
    /\ req["r1"].token # req["r2"].token
    /\ req["r1"].observed # {} /\ req["r2"].observed # {}

\* C2: whatever the model does, the graph runs at most MAX_ITERATIONS nodes, and
\* a call that ran into the ceiling resolves with the non-empty fallback message.
C2_LoopCeiling ==
    \A r \in Reqs :
        /\ req[r].modelCalls + req[r].toolRuns <= MAX_ITERATIONS
        /\ req[r].exhausted =>
              /\ req[r].pc = "done"
              /\ req[r].result.kind = "resolved"
              /\ req[r].result.response = S_Unexpected
              /\ req[r].result.response # <<>>

\* The model asked for a tool at every invocation up to the ceiling
C2_Exhausted ==
    \E r \in Reqs :
        /\ req[r].exhausted
        /\ req[r].modelCalls + req[r].toolRuns = MAX_ITERATIONS
        /\ req[r].modelCalls = req[r].toolRuns + 1

\* C3: after N successful turns on a conversation with no clear in between, its
\* stored history has min(2N, 20) messages: the last ones of the human and
\* assistant messages the turns appended, in order.
C3_HistoryLength ==
    /\ DOMAIN conversationStore = DOMAIN completed
    /\ \A c \in DOMAIN completed :
          /\ Len(completed[c].log) = 2 * completed[c].turns
          /\ Len(conversationStore[c]) = Min(2 * completed[c].turns, HISTORY_LIMIT)
          /\ conversationStore[c] = SliceLast(completed[c].log, HISTORY_LIMIT)

\* More turns than the cap holds: the first message stored is not the first sent
C3_Evicted ==
    \E c \in DOMAIN completed :
        /\ 2 * completed[c].turns > HISTORY_LIMIT
        /\ Len(conversationStore[c]) = HISTORY_LIMIT
        /\ conversationStore[c][1] # completed[c].log[1]

\* C4: of one user's calls inside one window the first RATE_LIMIT pass and the
\* next one is rejected with the rate-limit error; the first call after the
\* window's reset time passes and leaves a new record with count 1.
C4_RateWindow ==
    /\ lastRate.nth \in 1..RATE_LIMIT => ~lastRate.threw
    /\ lastRate.nth = RATE_LIMIT + 1 =>
          lastRate.threw /\ lastRate.message = S_RateLimitExceeded
    /\ lastRate.opened => ~lastRate.threw /\ lastRate.count = 1

\* A window was used up, its next call rejected, and the call after its reset
\* time opened the next window
C4_Reopened ==
    /\ lastRate.opened
    /\ calls = RATE_LIMIT + 2
    /\ now = RATE_WINDOW + 1
    /\ rateLimiter[lastRate.userId] = [count |-> 1, resetAt |-> now + RATE_WINDOW]

\* The text would be refused as a query: upper-cased and trimmed it contains a
\* forbidden keyword or does not begin with SELECT
Refusable(text) ==
    \/ \E i \in 1..Len(dangerousKeywords) :
          Includes(Trim(ToUpperCase(text)), dangerousKeywords[i])
    \/ ~StartsWith(Trim(ToUpperCase(text)), S_SELECT)

\* C5: query_database never passes to pgQuery a statement that, upper-cased and
\* trimmed, contains a forbidden keyword or does not begin with SELECT.
C5_OnlySelectExecuted ==
    (queryCase.ran /\ queryCase.out.executed)
        => ~Refusable(queryCase.out.statement)

\* C6: when the model's first reply is plain text without tool calls, the call
\* is over after that one model invocation, no tool has run, and the response
\* is that text unchanged.
C6_PlainFirstReply ==
    \A r \in Reqs :
        ( /\ req[r].modelCalls >= 1
          /\ req[r].firstReply.kind = "message"
          /\ req[r].firstReply.message.content.kind = "text"
          /\ Len(req[r].firstReply.message.tool_calls) = 0 )
        => /\ req[r].pc = "done"
           /\ req[r].modelCalls = 1
           /\ req[r].toolRuns = 0
           /\ req[r].result =
                 ChatResponse(TRUE, req[r].firstReply.message.content.text,
                              req[r].convId)

\* A second turn: the history already holds another assistant message
C6_PlainAfterHistory ==
    \E r \in Reqs :
        /\ req[r].pc = "done"
        /\ req[r].firstReply = ModelReply(Text(S_yo), <<>>)
        /\ Len(req[r].history) = 2
        /\ req[r].history[2] = AIMessage(S_Hello)
        /\ req[r].result.response = S_yo

\* C7: whatever its remote call does, a tool returns a JSON object that has
\* success:true or is {error: message}, never success:false nor the bare remote
\* payload, and it does not throw.
C7_UniformEnvelope ==
    toolCase.ran =>
        /\ ~toolCase.out.threw
        /\ toolCase.out.value.defined
        /\ ~toolCase.out.value.bare
        /\ \/ toolCase.out.value.success = "true"
           \/ toolCase.out.value.success = "none" /\ toolCase.out.value.hasError

\* C8: a tool run while getCurrentToken() is null returns
\* {error: 'Authentication required'}, makes no HTTP call and does not throw.
C8_NoCredential ==
    (toolCase.ran /\ toolCase.name \in ScopedTools /\ toolCase.current = Null)
        => /\ ~toolCase.out.threw
           /\ toolCase.out.value = ErrorEnvelope(S_AuthRequired)
           /\ toolCase.out.http = 0

\* A tool whose remote call would have succeeded ran without a credential
C8_RanWithoutCredential ==
    /\ toolCase.ran
    /\ toolCase.name = "get_patient_allergies"
    /\ toolCase.current = Null
    /\ toolCase.remote = Resolved(B_wrapped)
    /\ toolCase.out.value.hasError

\* C9: a call the rate limiter rejects resolves to a ChatResponse with
\* success:false and the rate-limit sentence; chat does not reject.
C9_RateLimitResolved ==
    \A r \in Reqs :
        req[r].failedAt = "rateLimit"
        => /\ req[r].result.kind = "resolved"
           /\ ~req[r].result.success
           /\ req[r].result.response = S_RateLimitExceeded

\* C10: a failure of the permission check, of the credential binding or of the
\* loop resolves to a ChatResponse with success:false and a non-empty message,
\* a permission denial carrying the denial message; chat does not reject.
C10_FailuresResolved ==
    \A r \in Reqs :
        req[r].failedAt \in { "permissions", "loop" }
        => /\ req[r].result.kind = "resolved"
           /\ ~req[r].result.success
           /\ req[r].result.response # <<>>
           /\ req[r].failedAt = "permissions"
                 => Includes(req[r].result.response, S_permission)

\* C11: a ChatResponse with success:false carries one of the fixed sentences
\* (high demand, took too long, unexpected error) or the AI Chat denial message,
\* never the raw message of an internal error.
C11_FixedFailureText ==
    \A r \in Reqs :
        (req[r].result.kind = "resolved" /\ ~req[r].result.success)
        => req[r].result.response
              \in { S_HighDemand, S_TookTooLong, S_Unexpected, S_NoPermission }

\* C12: a non-root user's request reaches the model-tool loop only when the
\* permission lookup found hasAccess true, or the lookup failed, or the AI Chat
\* module is not provisioned.
C12_LoopNeedsLookup ==
    \A r \in Reqs :
        (req[r].step >= 1 /\ req[r].user.accountType # S_root)
        => req[r].lookup.kind \in { "granted", "throws", "noModule" }

\* C13: when the permission lookup itself throws, the request is not denied.
C13_LookupErrorAllows ==
    \A r \in Reqs :
        req[r].lookup.kind = "throws" => req[r].failedAt # "permissions"

\* The text has a LIMIT clause: the word LIMIT, in either case, between blanks
HasLimitClause(text) ==
    Includes(ToUpperCase(text), S_LimitClause)

\* The query text and the limit query_database takes from its input
AcceptedQuery(input) ==
    queryParams(input, JSONParse(input))

\* The statement the claim expects for a query text and a limit
LimitedStatement(sqlQuery, limit) ==
    IF HasLimitClause(sqlQuery) THEN sqlQuery
    ELSE sqlQuery \o S_LimitClause \o limit

\* C14: an accepted query is executed unchanged when it has a LIMIT clause and
\* with ' LIMIT n' appended otherwise, so every executed statement carries a
\* LIMIT clause.
C14_LimitCarried ==
    (queryCase.ran /\ queryCase.out.executed)
        => /\ queryCase.out.statement =
                 LimitedStatement(AcceptedQuery(queryCase.input).sqlQuery,
                                  AcceptedQuery(queryCase.input).limit)
           /\ HasLimitClause(queryCase.out.statement)

\* C15: getCurrentToken() called outside every runWithToken extent returns null:
\* before the first extent of a context, between its extents and after an
\* extent has settled, whatever the other contexts have bound at that moment.
C15_AbsentOutside ==
    \A c \in Reqs : extent[c].outside \subseteq { Null }

\* ... a read after a rejected extent, while the other context holds a token
C15_ReadAfterExtent ==
    /\ extent["r1"].runs >= 1
    /\ ~extent["r1"].active
    /\ extent["r1"].settled = "rejected"
    /\ extent["r1"].token = "tokA"
    /\ extent["r1"].outside = { Null }
    /\ extent["r2"].active
    /\ tokenStorage["r2"] = "tokB"

C17_ClearedStaysEmpty ==
    /\ \A id \in cleared.pending : getHistory(conversationStore, id) = <<>>
    /\ cleared.called => (cleared.returned <=> cleared.stored)

\* C18: the history a successful turn writes is the history stored at that
\* moment followed by the turn's human and assistant messages, trimmed to the
\* last 20.
C18_AppendOnly ==
    \A r \in Reqs :
        (req[r].pc = "done" /\ req[r].result.kind = "resolved"
                            /\ req[r].result.success)
        => req[r].written =
              SliceLast(req[r].storedBefore
                           \o << HumanMessage(req[r].message),
                                 AIMessage(req[r].result.response) >>,
                        HISTORY_LIMIT)

\* The text carries the decoration of addContext
Decorated(text) ==
    Includes(text, S_ContextHead) \/ Includes(text, S_ContextTail)

\* C19: the decorated message goes to the loop only: the loop's human message is
\* addContext(message, user), the human message written to the history is the
\* caller's raw message, and no stored message and no response carries the
\* decoration.
C19_DecorationNotKept ==
    /\ \A id \in DOMAIN conversationStore :
          \A i \in 1..Len(conversationStore[id]) :
             ~Decorated(conversationStore[id][i].content.text)
    /\ \A r \in Reqs :
          /\ req[r].result.kind = "resolved" => ~Decorated(req[r].result.response)
          /\ req[r].step >= 1
                => req[r].messages[Len(req[r].history) + 2] =
                      HumanMessage(addContext(req[r].message, req[r].user, now))
          /\ (req[r].result.kind = "resolved" /\ req[r].result.success)
                => req[r].written[Len(req[r].written) - 1] =
                      HumanMessage(req[r].message)

\* ... a turn on a conversation with history has completed and is stored
C19_StoredRaw ==
    \E r \in Reqs :
        /\ req[r].result.kind = "resolved" /\ req[r].result.success
        /\ Len(req[r].history) >= 2
        /\ Decorated(req[r].messages[Len(req[r].history) + 2].content.text)
        /\ conversationStore[req[r].convId] = req[r].written

\* C20: the loop is aborted only when the model<->tool round trips exceed 15: a
\* request with up to 15 tool rounds is not cut off.
C20_FifteenRoundTrips ==
    \A r \in Reqs :
        req[r].exhausted => req[r].toolRuns > MAX_ITERATIONS

\* The column name is on the denylist or ends with '_id', letter case aside
DeniedName(columnName) ==
    \/ \E i \in 1..Len(HIDDEN_COLUMNS) :
          ToUpperCase(HIDDEN_COLUMNS[i]) = ToUpperCase(columnName)
    \/ ( /\ Len(columnName) >= 3
         /\ ToUpperCase(SubSeq(columnName, Len(columnName) - 2, Len(columnName)))
               = << "_", "I", "D" >> )

C22_PromptAfterClear ==
    (schemaState.last.made /\ schemaState.last.afterClear
                           /\ ~schemaState.last.dbFails)
        => schemaState.last.prompt
              = promptText([i \in 1..Len(schemaState.last.db) |->
                               TableSchema(schemaState.last.db[i])])

\* C23: in the legacy variant every tool call made for a request uses the token
\* the request was started with.
C23_LegacyOwnToken ==
    \A r \in Reqs : req[r].legacyUsed \subseteq { req[r].token }

\* C24: every rate-limit record has a count from 1 to RATE_LIMIT, and in one
\* window of a user at most RATE_LIMIT chat calls pass the rate-limit check,
\* however that user's calls interleave.
C24_CountBounded ==
    /\ \A u \in DOMAIN rateLimiter :
          rateLimiter[u].count \in 1..RATE_LIMIT
    /\ \A u \in DOMAIN windows : windows[u].passed <= RATE_LIMIT

\* A user's window is used up and a call was rejected while another call of the
\* same user is still in flight
C24_FullWhileInFlight ==
    \E u \in DOMAIN windows :
        /\ windows[u].passed = RATE_LIMIT
        /\ windows[u].seen > RATE_LIMIT
        /\ rateLimiter[u].count = RATE_LIMIT
        /\ \E r \in Reqs : req[r].pc = "agent" /\ req[r].user.userId = u
        /\ \E r \in Reqs : req[r].failedAt = "rateLimit" /\ req[r].user.userId = u

\* C25: a chat call the rate limiter rejects changes no rate-limit record and
\* nothing of the conversation store, and the request makes no permission
\* lookup, no model call and no tool call.
C25_RejectedChangesNothing ==
    /\ [](\A r \in Reqs :
            req[r].failedAt = "rateLimit" =>
               /\ req[r].pc = "done"
               /\ req[r].lookup.kind = "none"
               /\ req[r].modelCalls = 0
               /\ req[r].toolRuns = 0)
    /\ [][\A r \in Reqs :
            (req[r].pc = "idle" /\ req'[r].failedAt = "rateLimit") =>
               /\ rateLimiter' = rateLimiter
               /\ conversationStore' = conversationStore]_vars

\* A call was rejected while the other user has a record and the conversation
\* store holds a history
C25_RejectedBesideOthers ==
    \E r \in Reqs :
        /\ req[r].failedAt = "rateLimit"
        /\ \E u \in DOMAIN rateLimiter : u # req[r].user.userId
        /\ rateLimiter[req[r].user.userId].count = RATE_LIMIT
        /\ conversationStore # << >>

\* C26: a turn that fails inside the loop (the model call throws, or the graph
\* runs out of steps) leaves the conversation store exactly as it was: nothing
\* is appended and no entry is created.
C26_FailureKeepsHistory ==
    [][\A r \in Reqs :
          (req[r].pc # "done" /\ req'[r].failedAt = "loop") =>
             conversationStore' = conversationStore]_vars

\* A second turn ran out of steps after a first turn was stored
C26_FailedAfterStored ==
    \E r \in Reqs :
        /\ req[r].failedAt = "loop"
        /\ req[r].exhausted
        /\ req[r].history # <<>>
        /\ conversationStore[req[r].convId] = req[r].history

\* The type the message at place i of a stored history is to have
TurnType(i) ==
    IF i % 2 = 1 THEN "human" ELSE "ai"

\* C27: every stored history has an even length from 2 to HISTORY_LIMIT and
\* alternates human, assistant from a human message on; it holds no system
\* message, no tool message and no assistant message with tool calls.
C27_StoredShape ==
    \A c \in DOMAIN conversationStore :
        LET h == conversationStore[c]
        IN  /\ Len(h) \in 2..HISTORY_LIMIT
            /\ Len(h) % 2 = 0
            /\ \A i \in 1..Len(h) :
                  /\ h[i].type = TurnType(i)
                  /\ h[i].tool_calls = <<>>

\* A full history after an eviction: it begins with the human message of a
\* later turn
C27_FullAfterEviction ==
    \E c \in DOMAIN conversationStore :
        /\ Len(conversationStore[c]) = HISTORY_LIMIT
        /\ completed[c].turns > HISTORY_LIMIT \div 2 + 1
        /\ conversationStore[c][1].type = "human"
        /\ conversationStore[c][1] # HumanMessage(Digits(0))
        /\ conversationStore[c][1] # HumanMessage(Digits(1))

\* C28: the response of a successful turn is never the empty string: a final
\* model output with no usable text is answered with the apology.
C28_NeverEmpty ==
    \A r \in Reqs :
        (req[r].result.kind = "resolved" /\ req[r].result.success)
        => req[r].result.response # <<>>

\* The message the user of a session sends
MessageOf(user) ==
    (CHOOSE s \in ShareSessions : s.user = user).message

\* C29: the history a chat call reads for a user, and feeds to the model, holds
\* only that user's own messages.
C29_OwnHistoryOnly ==
    \A r \in Reqs :
        req[r].pc # "idle" =>
           \A i \in 1..Len(req[r].history) :
               req[r].history[i].type = "human" =>
                  req[r].history[i].content.text = MessageOf(req[r].user)

\* C30: when the schema load failed while the prompt was first assembled, a
\* later prompt asked for with the database up again describes the database's
\* schema.
C30_RetryAfterFailure ==
    (schemaState.last.made /\ schemaState.firstFailed
                           /\ schemaState.calls >= 2
                           /\ ~schemaState.last.dbFails)
        => schemaState.last.prompt
              = promptText([i \in 1..Len(schemaState.last.db) |->
                               TableSchema(schemaState.last.db[i])])

====
